---- MODULE Spec2Model ----
(***************************************************************************)
(* Repository evaluation and selection pipeline of lib/process.ts:         *)
(* hard elimination, active-block segmentation, seven quality sub-scores,  *)
(* the weighted final score, and the ranked, language-diversified top-N.   *)
(*                                                                         *)
(* Conventions of the model                                                *)
(*  - Instants are whole hours since the epoch (the code holds             *)
(*    milliseconds); a quantity the code holds in days is held here in     *)
(*    hours, so "1 day" is HoursPerDay and "30 days" is                    *)
(*    INACTIVITY_GAP_DAYS * HoursPerDay.                                   *)
(*  - A sub-score of [0,1] is held as an integer of [0, ScoreUnit]         *)
(*    (steps of 1e-4); finalScore is held in hundredths of a point, the    *)
(*    precision Math.round(x * 100) / 100 leaves.                          *)
(*  - A string the code inspects character by character (names, commit     *)
(*    messages) is a sequence of one-character strings.                    *)
(***************************************************************************)
EXTENDS Integers, Sequences, FiniteSets

VARIABLES
    repos,          \* processRepos: the raw snapshot list (argument)
    username,       \* processRepos: the account name (argument)
    maxRepos,       \* processRepos: the target size (argument)
    now,            \* Date.now(), in hours
    pc,             \* where the run stands
    filtered,       \* processRepos: const filtered
    enriched,       \* processRepos: the bundles, one per filtered repository
    processed,      \* processRepos: const processed, before the sort
    output,         \* processRepos: the returned list
    commits,        \* the commit records handed to the segmentation
    segmentation,   \* { blocks, activeDays } of buildActiveBlocks
    scoreIn,        \* one repository with its bundle and the run maxima
    scoreOut        \* its seven sub-scores and finalScore

vars == <<repos, username, maxRepos, now, pc, filtered, enriched, processed,
          output, commits, segmentation, scoreIn, scoreOut>>

(***************************************************************************)
(* Bounds of the model                                                     *)
(***************************************************************************)
\* longest raw snapshot list of a pipeline run
MaxRepos == 2
\* largest target size of a pipeline run
MaxTarget == 2
\* longest commit list handed to the segmentation
MaxCommits == 4
\* longest candidate list handed to the selection stage
MaxCandidates == 9
\* largest target size handed to the selection stage
MaxSelectTarget == 5
\* longest commit list handed to the commit-quality score
MaxScoredCommits == 30
\* most languages of a language map handed to the complexity estimate
MaxLanguages == 6
\* longest list of survivors handed to the language extraction
MaxLabelled == 5

(***************************************************************************)
(* Program constants                                                       *)
(***************************************************************************)
INACTIVITY_GAP_DAYS == 30
ONGOING_THRESHOLD_DAYS == 60
HoursPerDay == 24
\* repo.size < 100
MinSizeKB == 100
\* processed.slice(0, 8)
PoolSize == 8
\* applyDiversityFilter(top8, 2, maxRepos)
MaxPerLang == 2
\* one sub-score unit is 1e-4
ScoreUnit == 100 * 100

(***************************************************************************)
(* Helpers                                                                 *)
(***************************************************************************)
Max(a, b) == IF a >= b THEN a ELSE b
Min(a, b) == IF a <= b THEN a ELSE b

\* every sequence over S of length at most n
SeqUpTo(S, n) == UNION { [1..k -> S] : k \in 0..n }

RECURSIVE SumSeq(_)
SumSeq(s) == IF s = <<>> THEN 0 ELSE Head(s) + SumSeq(Tail(s))

\* String.prototype.toLowerCase, one character
LowerChar(c) ==
    CASE c = "A" -> "a"
      [] c = "B" -> "b"
      [] c = "C" -> "c"
      [] c = "D" -> "d"
      [] c = "E" -> "e"
      [] c = "F" -> "f"
      [] c = "G" -> "g"
      [] c = "H" -> "h"
      [] c = "I" -> "i"
      [] c = "J" -> "j"
      [] c = "K" -> "k"
      [] c = "L" -> "l"
      [] c = "M" -> "m"
      [] c = "N" -> "n"
      [] c = "O" -> "o"
      [] c = "P" -> "p"
      [] c = "Q" -> "q"
      [] c = "R" -> "r"
      [] c = "S" -> "s"
      [] c = "T" -> "t"
      [] c = "U" -> "u"
      [] c = "V" -> "v"
      [] c = "W" -> "w"
      [] c = "X" -> "x"
      [] c = "Y" -> "y"
      [] c = "Z" -> "z"
      [] OTHER -> c

toLowerCase(s) == [i \in DOMAIN s |-> LowerChar(s[i])]

(***************************************************************************)
(* Hard elimination filter                                                 *)
(***************************************************************************)
\* a mutation of KeepRepo: the name is compared as written, not lower-cased
keepRepoCaseSensitive(repo, lowerUsername) ==
    IF repo.name = lowerUsername THEN FALSE
    ELSE IF repo.fork THEN FALSE
    ELSE IF repo.archived THEN FALSE
    ELSE IF repo.size < MinSizeKB THEN FALSE
    ELSE TRUE

\* the callback of repos.filter: four early returns, then true
KeepRepo(repo, lowerUsername) ==
    IF toLowerCase(repo.name) = lowerUsername THEN FALSE
    ELSE IF repo.fork THEN FALSE
    ELSE IF repo.archived THEN FALSE
    ELSE IF repo.size < MinSizeKB THEN FALSE
    ELSE TRUE

\* a mutation of hardFilterRepos: nothing is eliminated
unfiltered(rs, user) == rs

hardFilterRepos(rs, user) ==
    LET lowerUsername == toLowerCase(user)
    IN  SelectSeq(rs, LAMBDA repo : KeepRepo(repo, lowerUsername))

(***************************************************************************)
(* Active development blocks                                               *)
(***************************************************************************)
\* a mutation of parseCommitDates: no filter, a date that does not parse
\* counts as the epoch
parseCommitDatesUnfiltered(cs) == [i \in DOMAIN cs |-> cs[i].date.t]

\* new Date(c.date) of every commit, then .filter((d) => !isNaN(d.getTime()));
\* a date string is [valid |-> whether it parses, t |-> the instant it names]
parseCommitDates(cs) ==
    LET parsable == SelectSeq(cs, LAMBDA c : c.date.valid)
    IN  [i \in DOMAIN parsable |-> parsable[i].date.t]

\* one step of the (stable) sort by (a, b) => a.getTime() - b.getTime()
InsertAscending(sorted, x) ==
    LET k == Cardinality({i \in DOMAIN sorted : sorted[i] <= x})
    IN  SubSeq(sorted, 1, k) \o <<x>> \o SubSeq(sorted, k + 1, Len(sorted))

\* a mutation of sortAscending: the commit dates are walked as they came
unsortedDates(s) == s

RECURSIVE sortAscending(_)
sortAscending(s) ==
    IF s = <<>> THEN <<>>
    ELSE InsertAscending(sortAscending(SubSeq(s, 1, Len(s) - 1)), s[Len(s)])

\* the block a mutation of closeBlock would build: no floor of one day
closeBlockUnfloored(blockStart, blockEnd) ==
    [start |-> blockStart, end |-> blockEnd,
     durationDays |-> blockEnd - blockStart]

\* { start, end, durationDays: Math.max(1, (end - start) / DAY) }
closeBlock(blockStart, blockEnd) ==
    [start |-> blockStart, end |-> blockEnd,
     durationDays |-> Max(1 * HoursPerDay, blockEnd - blockStart)]

\* a mutation of exceedsInactivityGap: every later commit opens a block
exceedsAnyGap(gap) == gap > 0

\* a mutation of exceedsInactivityGap: a gap of exactly 30 days opens a block
reachesInactivityGap(gap) == gap >= INACTIVITY_GAP_DAYS * HoursPerDay

\* gapDays > INACTIVITY_GAP_DAYS, the gap in hours
exceedsInactivityGap(gap) == gap > INACTIVITY_GAP_DAYS * HoursPerDay

\* a mutation of walkCommits: the final block is not closed
RECURSIVE walkCommitsWithoutFinalBlock(_, _, _, _, _)
walkCommitsWithoutFinalBlock(sorted, i, blockStart, blockEnd, blocks) ==
    IF i > Len(sorted)
    THEN blocks
    ELSE IF exceedsInactivityGap(sorted[i] - blockEnd)
         THEN walkCommitsWithoutFinalBlock(sorted, i + 1, sorted[i], sorted[i],
                                           Append(blocks, closeBlock(blockStart, blockEnd)))
         ELSE walkCommitsWithoutFinalBlock(sorted, i + 1, blockStart, sorted[i], blocks)

\* the for loop over sorted[1..], then "Close final block"
RECURSIVE walkCommits(_, _, _, _, _)
walkCommits(sorted, i, blockStart, blockEnd, blocks) ==
    IF i > Len(sorted)
    THEN Append(blocks, closeBlock(blockStart, blockEnd))
    ELSE IF exceedsInactivityGap(sorted[i] - blockEnd)
         THEN walkCommits(sorted, i + 1, sorted[i], sorted[i],
                          Append(blocks, closeBlock(blockStart, blockEnd)))
         ELSE walkCommits(sorted, i + 1, blockStart, sorted[i], blocks)

\* a mutation of buildActiveBlocks: without a commit date one degenerate
\* block comes out
buildActiveBlocksDegenerate(commitDates) ==
    IF Len(commitDates) = 0
    THEN [blocks |-> <<closeBlock(0, 0)>>, activeDays |-> 1 * HoursPerDay]
    ELSE LET sorted == sortAscending(commitDates)
             blocks == walkCommits(sorted, 2, sorted[1], sorted[1], <<>>)
         IN  [blocks |-> blocks,
              activeDays |-> SumSeq([i \in DOMAIN blocks |-> blocks[i].durationDays])]

buildActiveBlocks(commitDates) ==
    IF Len(commitDates) = 0
    THEN [blocks |-> <<>>, activeDays |-> 0]
    ELSE LET sorted == sortAscending(commitDates)
             blocks == walkCommits(sorted, 2, sorted[1], sorted[1], <<>>)
         IN  [blocks |-> blocks,
              activeDays |-> SumSeq([i \in DOMAIN blocks |-> blocks[i].durationDays])]

(***************************************************************************)
(* Quality scoring                                                         *)
(***************************************************************************)
\* a mutation of scoreDocumentation: the weights of the README's existence
\* and of the license are exchanged
scoreDocumentationSwapped(readmeExists, readmeLength, hasUsageSection, hasLicense) ==
    LET readmeExistsScore == IF readmeExists THEN ScoreUnit ELSE 0
        readmeLengthScore ==
            IF readmeLength >= 2000 THEN ScoreUnit
            ELSE IF readmeLength >= 1000 THEN (ScoreUnit * 8) \div 10
            ELSE IF readmeLength >= 500 THEN (ScoreUnit * 6) \div 10
            ELSE IF readmeLength >= 200 THEN (ScoreUnit * 3) \div 10
            ELSE 0
        usageSectionScore == IF hasUsageSection THEN ScoreUnit ELSE 0
        licenseScore == IF hasLicense THEN ScoreUnit ELSE 0
    IN  (readmeExistsScore * 1 + readmeLengthScore * 3
            + usageSectionScore * 2 + licenseScore * 4) \div 10

\* 1. Documentation and usability
scoreDocumentation(readmeExists, readmeLength, hasUsageSection, hasLicense) ==
    LET readmeExistsScore == IF readmeExists THEN ScoreUnit ELSE 0
        readmeLengthScore ==
            IF readmeLength >= 2000 THEN ScoreUnit
            ELSE IF readmeLength >= 1000 THEN (ScoreUnit * 8) \div 10
            ELSE IF readmeLength >= 500 THEN (ScoreUnit * 6) \div 10
            ELSE IF readmeLength >= 200 THEN (ScoreUnit * 3) \div 10
            ELSE 0
        usageSectionScore == IF hasUsageSection THEN ScoreUnit ELSE 0
        licenseScore == IF hasLicense THEN ScoreUnit ELSE 0
    IN  (readmeExistsScore * 4 + readmeLengthScore * 3
            + usageSectionScore * 2 + licenseScore * 1) \div 10

\* The file and directory names of a root listing are whole strings here; what
\* the code asks of their characters (startsWith, includes) is tabulated for
\* the names the model's listings hold.
NamesStartingWith(prefix) ==
    CASE prefix = ".env" -> {".env", ".env.local"}
      [] prefix = ".eslint" -> {".eslintrc", ".eslintrc.json"}
      [] prefix = ".prettier" -> {".prettierrc"}
      [] prefix = "eslint" -> {"eslint.config.js"}
      [] prefix = "prettier" -> {"prettier.config.js"}
      [] prefix = ".stylelint" -> {".stylelintrc"}
      [] OTHER -> {}

NamesIncluding(part) ==
    CASE part = "config" -> {"tsconfig.json", "eslint.config.js", "prettier.config.js", "config"}
      [] part = ".test." -> {"app.test.js"}
      [] part = ".spec." -> {"app.spec.ts"}
      [] OTHER -> {}

\* i.name.toLowerCase() of a listing entry
lowerName(name) ==
    CASE name = "Dockerfile" -> "dockerfile"
      [] name = "Makefile" -> "makefile"
      [] name = "README.md" -> "readme.md"
      [] name = "Src" -> "src"
      [] OTHER -> name

\* rootContents.filter((i) => i.type === kind).map((i) => i.name.toLowerCase())
rootNames(rootContents, kind) ==
    { lowerName(rootContents[i].name) :
        i \in { j \in DOMAIN rootContents : rootContents[j].type = kind } }

BuildManifests ==
    {"package.json", "pom.xml", "setup.py", "requirements.txt", "go.mod",
     "cargo.toml", "build.gradle", "gemfile", "pyproject.toml",
     "composer.json", "mix.exs", "build.sbt", "deno.json"}

BuildConfigs ==
    {"dockerfile", "docker-compose.yml", "docker-compose.yaml", "makefile",
     "justfile", "cmakelists.txt", "jenkinsfile", ".gitlab-ci.yml",
     "vercel.json", "netlify.toml", "fly.toml", "render.yaml", "procfile"}

\* 2. Project completeness: the fraction of four checks that are met
scoreCompleteness(rootFiles, rootDirs) ==
    LET checks == <<
            rootFiles \cap BuildManifests # {},
            \/ rootFiles \cap BuildConfigs # {}
            \/ ".github" \in rootDirs
            \/ ".circleci" \in rootDirs,
            ".gitignore" \in rootFiles,
            \/ rootFiles \cap (NamesStartingWith(".env") \cup NamesIncluding("config")) # {}
            \/ rootDirs \cap {"config", "configuration", "settings"} # {} >>
        foundCount == Cardinality({ i \in DOMAIN checks : checks[i] })
    IN  (foundCount * ScoreUnit) \div Len(checks)

StructureDirs ==
    {"src", "lib", "app", "pkg", "internal", "cmd", "core",
     "modules", "packages", "components", "services"}

TestDirs == {"tests", "test", "__tests__", "spec", "testing", "e2e", "cypress"}

LintConfigNames ==
    NamesStartingWith(".eslint") \cup NamesStartingWith(".prettier")
        \cup NamesStartingWith("eslint") \cup NamesStartingWith("prettier")
        \cup NamesStartingWith(".stylelint")
        \cup {".flake8", "tslint.json", ".editorconfig", "biome.json",
              "rustfmt.toml", ".rubocop.yml", ".clang-format", "dprint.json"}

\* 3. Code quality heuristic
scoreCodeQuality(rootFiles, rootDirs) ==
    LET hasStructure == rootDirs \cap StructureDirs # {}
        hasTests ==
            \/ rootDirs \cap TestDirs # {}
            \/ rootFiles \cap (NamesIncluding(".test.") \cup NamesIncluding(".spec.")) # {}
        hasLintConfig == rootFiles \cap LintConfigNames # {}
    IN  (((IF hasStructure THEN ScoreUnit ELSE 0) * 4)
            + ((IF hasTests THEN ScoreUnit ELSE 0) * 3)
            + ((IF hasLintConfig THEN ScoreUnit ELSE 0) * 3)) \div 10

\* c.message.split("\n")[0]
firstLineOf(message) ==
    LET breaks == { i \in DOMAIN message : message[i] = "\n" }
    IN  IF breaks = {} THEN message
        ELSE SubSeq(message, 1, (CHOOSE i \in breaks : \A j \in breaks : i <= j) - 1)

IsSpace(c) == c \in {" ", "\t", "\r", "\n"}

\* String.prototype.trim
trim(line) ==
    LET solid == { i \in DOMAIN line : ~IsSpace(line[i]) }
    IN  IF solid = {} THEN <<>>
        ELSE SubSeq(line, CHOOSE i \in solid : \A j \in solid : i <= j,
                          CHOOSE i \in solid : \A j \in solid : i >= j)

\* String.prototype.includes, for a part of one or more characters
includes(line, part) ==
    \E i \in 1..(Len(line) - Len(part) + 1) : SubSeq(line, i, i + Len(part) - 1) = part

IsDigit(c) == c \in {"0", "1", "2", "3", "4", "5", "6", "7", "8", "9"}

NoiseWords ==
    { <<"w", "i", "p">>, <<"t", "m", "p">>, <<"a", "s", "d", "f">>,
      <<"q", "w", "e", "r">>, <<"a", "a", "a">>, <<"b", "b", "b">>,
      <<"z", "z", "z">> }

\* /^(\.+|x+|a+|test\d*|wip|tmp|asdf|qwer|aaa|bbb|zzz)$/i.test(firstLine)
isNoise(firstLine) ==
    LET l == toLowerCase(firstLine)
    IN  \/ (Len(l) >= 1 /\ \E c \in {".", "x", "a"} : \A i \in DOMAIN l : l[i] = c)
        \/ (/\ Len(l) >= 4
            /\ SubSeq(l, 1, 4) = <<"t", "e", "s", "t">>
            /\ \A i \in 5..Len(l) : IsDigit(l[i]))
        \/ l \in NoiseWords

\* the body of the loop that counts meaningful commit messages
isMeaningful(message) ==
    LET firstLine == trim(firstLineOf(message))
    IN  IF Len(firstLine) < 3 THEN FALSE
        ELSE IF isNoise(firstLine) THEN FALSE
        ELSE \/ Len(firstLine) >= 10
             \/ includes(firstLine, <<":">>)
             \/ includes(firstLine, <<" ">>)

\* a mutation of timeSpreadOf: the bucket bounds are exclusive
timeSpreadOfExclusive(uniqueDays) ==
    IF uniqueDays > 30 THEN ScoreUnit
    ELSE IF uniqueDays > 14 THEN (ScoreUnit * 8) \div 10
    ELSE IF uniqueDays > 7 THEN (ScoreUnit * 6) \div 10
    ELSE IF uniqueDays > 3 THEN (ScoreUnit * 4) \div 10
    ELSE (ScoreUnit * 2) \div 10

\* time spread on the number of distinct calendar days
timeSpreadOf(uniqueDays) ==
    IF uniqueDays >= 30 THEN ScoreUnit
    ELSE IF uniqueDays >= 14 THEN (ScoreUnit * 8) \div 10
    ELSE IF uniqueDays >= 7 THEN (ScoreUnit * 6) \div 10
    ELSE IF uniqueDays >= 3 THEN (ScoreUnit * 4) \div 10
    ELSE (ScoreUnit * 2) \div 10

\* 4. Commit quality
scoreCommitQuality(cs, tagsCount) ==
    IF Len(cs) = 0 THEN 0
    ELSE LET meaningfulCount ==
                 Cardinality({ i \in DOMAIN cs : isMeaningful(cs[i].message) })
             meaningfulRatio == (meaningfulCount * ScoreUnit) \div Len(cs)
             dates == parseCommitDates(cs)
             uniqueDays == Cardinality({ dates[i] \div HoursPerDay : i \in DOMAIN dates })
             timeSpreadScore == IF Len(dates) >= 2 THEN timeSpreadOf(uniqueDays) ELSE 0
             releasesScore == IF tagsCount > 0 THEN ScoreUnit ELSE 0
         IN  (meaningfulRatio * 5 + timeSpreadScore * 3 + releasesScore * 2) \div 10

\* a mutation of issuesHealthOf: open issues add to the health
issuesHealthGrowing(hasIssues, openIssuesCount) ==
    IF hasIssues THEN ScoreUnit + openIssuesCount * 100 ELSE 0

\* issuesHealth of scoreMaintenance
issuesHealthOf(hasIssues, openIssuesCount) ==
    IF ~hasIssues THEN 0
    ELSE IF openIssuesCount <= 10 THEN ScoreUnit
    ELSE IF openIssuesCount <= 50 THEN (ScoreUnit * 6) \div 10
    ELSE (ScoreUnit * 3) \div 10

\* 5. Maintenance and health; clock is Date.now()
scoreMaintenance(pushedAt, hasIssues, openIssuesCount, clock) ==
    LET sincePush == clock - pushedAt
        recentActivityScore ==
            IF sincePush < 30 * HoursPerDay THEN ScoreUnit
            ELSE IF sincePush < 90 * HoursPerDay THEN (ScoreUnit * 8) \div 10
            ELSE IF sincePush < 180 * HoursPerDay THEN (ScoreUnit * 6) \div 10
            ELSE IF sincePush < 365 * HoursPerDay THEN (ScoreUnit * 4) \div 10
            ELSE (ScoreUnit * 2) \div 10
    IN  (recentActivityScore * 6 + issuesHealthOf(hasIssues, openIssuesCount) * 4) \div 10

\* Math.log(n) in units of 1e-4, for n = 1..10
LnTable == <<0, 6931, 10986, 13863, 16094, 17918, 19459, 20794, 21972, 23026>>

log(n) == LnTable[n]

\* a mutation of scoreStars: the ratio of the counts, without the logarithm
scoreStarsLinear(stars, maxStars) ==
    IF maxStars = 0 \/ stars = 0 THEN 0
    ELSE (stars * ScoreUnit) \div maxStars

\* 6. Star bonus
scoreStars(stars, maxStars) ==
    IF maxStars = 0 \/ stars = 0 THEN 0
    ELSE (log(stars + 1) * ScoreUnit) \div log(maxStars + 1)

\* 7. Fork bonus
scoreForks(forks, maxForks) ==
    IF maxForks = 0 \/ forks = 0 THEN 0
    ELSE (log(forks + 1) * ScoreUnit) \div log(maxForks + 1)

\* Math.round of a non-negative quotient a / b
roundDiv(a, b) == (2 * a + b) \div (2 * b)

\* a mutation of weightedFinalScore: commit quality weighs 0.15
weightedFinalScoreSkewed(doc, comp, code, commit, maint, star, fork) ==
    roundDiv(25 * doc + 20 * comp + 20 * code + 15 * commit
                + 10 * maint + 10 * star + 5 * fork, 100)

\* the weighted sum times 100, then Math.round(finalScore * 100) / 100, held
\* in hundredths of a point
weightedFinalScore(doc, comp, code, commit, maint, star, fork) ==
    roundDiv(25 * doc + 20 * comp + 20 * code + 10 * commit
                + 10 * maint + 10 * star + 5 * fork, 100)

(***************************************************************************)
(* Complexity estimate (display only); its parts are held in hundredths    *)
(***************************************************************************)
COMPLEXITY_KEYWORDS ==
    { <<"r", "e", "f", "a", "c", "t", "o", "r">>,
      <<"o", "p", "t", "i", "m", "i", "z", "e">>,
      <<"r", "e", "s", "t", "r", "u", "c", "t", "u", "r", "e">>,
      <<"p", "e", "r", "f", "o", "r", "m", "a", "n", "c", "e">> }

\* commits.some((c) => COMPLEXITY_KEYWORDS.some((kw) => ...includes(kw)))
hasComplexityKeywordsIn(cs) ==
    \E i \in DOMAIN cs : \E kw \in COMPLEXITY_KEYWORDS :
        includes(toLowerCase(cs[i].message), kw)

\* Math.log10(n) in units of 1e-4, for the byte totals of the model's language maps
log10(n) ==
    CASE n = 1 -> 0
      [] n = 101 -> 20043
      [] n = 1000 -> 30000
      [] n = 10000000 -> 70000
      [] n = 100000000 -> 80000

complexityLabelOf(score) ==
    IF score >= 75 THEN "Very High"
    ELSE IF score >= 50 THEN "High"
    ELSE IF score >= 25 THEN "Medium"
    ELSE "Low"

\* const safeActiveDays = Math.max(1, activeDays), in hours
safeActiveDays(activeDays) == Max(1 * HoursPerDay, activeDays)

\* 1) Codebase size score (0-30)
sizeScore(totalBytes) == Min(30 * 100, (log10(totalBytes + 1) * 30) \div (7 * 100))

\* a mutation of breadthScore: no cap at 20
breadthScoreUncapped(numLanguages) == numLanguages * 4 * 100

\* 2) Tech breadth score (0-20)
breadthScore(numLanguages) == Min(20 * 100, numLanguages * 4 * 100)

\* 3) Commit structure score (0-20); commitCount / safeActiveDays is formed here
commitStructureScore(commitCount, hasComplexityKeywords, activeDays) ==
    LET densityPart ==
            Min(10 * 100,
                (commitCount * 5 * 100 * HoursPerDay) \div safeActiveDays(activeDays))
        keywordPart == IF hasComplexityKeywords THEN 10 * 100 ELSE 0
    IN  Min(20 * 100, densityPart + keywordPart)

\* 4) Longevity score (0-20); activeDays is in hours
longevityScore(activeDays, activeBlockCount) ==
    Min(20 * 100,
        (activeDays * 15 * 100) \div (365 * HoursPerDay) + activeBlockCount * 100)

\* 5) Maturity score (0-10)
maturityScore(hasIssues, hasProjects, hasWiki) ==
    (IF hasIssues THEN 333 ELSE 0) + (IF hasProjects THEN 333 ELSE 0)
        + (IF hasWiki THEN 334 ELSE 0)

computeComplexityScore(totalBytes, numLanguages, commitCount, hasComplexityKeywords, activeDays, activeBlockCount, hasIssues, hasProjects, hasWiki) ==
    LET raw == sizeScore(totalBytes) + breadthScore(numLanguages)
                  + commitStructureScore(commitCount, hasComplexityKeywords, activeDays)
                  + longevityScore(activeDays, activeBlockCount)
                  + maturityScore(hasIssues, hasProjects, hasWiki)
        score == roundDiv(Min(100 * 100, Max(0, raw)), 100)
    IN  [score |-> score, label |-> complexityLabelOf(score)]

(***************************************************************************)
(* Languages, ongoing detection, and the record built per repository       *)
(***************************************************************************)
\* one step of the (stable) sort of Object.entries by ([, a], [, b]) => b - a
InsertByBytes(sorted, x) ==
    LET k == Cardinality({i \in DOMAIN sorted : sorted[i].bytes >= x.bytes})
    IN  SubSeq(sorted, 1, k) \o <<x>> \o SubSeq(sorted, k + 1, Len(sorted))

RECURSIVE sortByBytes(_)
sortByBytes(entries) ==
    IF entries = <<>> THEN <<>>
    ELSE InsertByBytes(sortByBytes(SubSeq(entries, 1, Len(entries) - 1)),
                       entries[Len(entries)])

\* a mutation of extractLanguages: a repository without a language map has no
\* primary language
extractLanguagesNoPrimary(languages) ==
    LET sorted == sortByBytes(languages)
        totalBytes == SumSeq([i \in DOMAIN sorted |-> sorted[i].bytes])
    IN  IF Len(sorted) = 0
        THEN [primary |-> "null", secondary |-> "null",
              totalBytes |-> 0, numLanguages |-> 0]
        ELSE [primary |-> sorted[1].lang,
              secondary |-> IF Len(sorted) > 1 THEN sorted[2].lang ELSE "null",
              totalBytes |-> totalBytes,
              numLanguages |-> Len(sorted)]

\* a language map is the sequence of its entries [lang, bytes], in key order
extractLanguages(languages) ==
    LET sorted == sortByBytes(languages)
        totalBytes == SumSeq([i \in DOMAIN sorted |-> sorted[i].bytes])
    IN  IF Len(sorted) = 0
        THEN [primary |-> "Unknown", secondary |-> "null",
              totalBytes |-> 0, numLanguages |-> 0]
        ELSE [primary |-> sorted[1].lang,
              secondary |-> IF Len(sorted) > 1 THEN sorted[2].lang ELSE "null",
              totalBytes |-> totalBytes,
              numLanguages |-> Len(sorted)]

isProjectOngoing(pushedAt, clock) ==
    clock - pushedAt <= ONGOING_THRESHOLD_DAYS * HoursPerDay

RECURSIVE MaxOfSeq(_)
MaxOfSeq(s) == IF s = <<>> THEN 0 ELSE Max(Head(s), MaxOfSeq(Tail(s)))

\* a mutation of maxStarsOf: the maximum is taken of the first repository only
maxStarsOfFirst(rs) == Max(rs[1].stargazers_count, 1)

\* a mutation of maxStarsOf: the maximum is not floored at 1
maxStarsUnfloored(rs) == MaxOfSeq([i \in DOMAIN rs |-> rs[i].stargazers_count])

\* Math.max(...withEnrichment.map(({ repo }) => repo.stargazers_count), 1)
maxStarsOf(rs) == Max(MaxOfSeq([i \in DOMAIN rs |-> rs[i].stargazers_count]), 1)

\* Math.max(...withEnrichment.map(({ repo }) => repo.forks_count), 1)
maxForksOf(rs) == Max(MaxOfSeq([i \in DOMAIN rs |-> rs[i].forks_count]), 1)

\* the callback of withEnrichment.map: one ProcessedRepo from a repository,
\* its bundle and the run maxima (description and url, copied through, are
\* left out)
buildProcessedRepo(repo, data, maxStars, maxForks, clock) ==
    LET langs == extractLanguages(data.languages)
        seg == buildActiveBlocks(parseCommitDates(data.commits))
        blocks == seg.blocks
        ongoing == isProjectOngoing(repo.pushed_at, clock)
        rootFiles == rootNames(data.rootContents, "file")
        rootDirs == rootNames(data.rootContents, "dir")
        documentationScore ==
            scoreDocumentation(data.readmeInfo.exists, data.readmeInfo.length,
                               data.readmeInfo.hasUsageSection, repo.license # "null")
        completenessScore == scoreCompleteness(rootFiles, rootDirs)
        codeQualityScore == scoreCodeQuality(rootFiles, rootDirs)
        commitQualityScore == scoreCommitQuality(data.commits, data.tagsCount)
        maintenanceScore ==
            scoreMaintenance(repo.pushed_at, repo.has_issues, repo.open_issues_count, clock)
        starScoreVal == scoreStars(repo.stargazers_count, maxStars)
        forkScoreVal == scoreForks(repo.forks_count, maxForks)
        complexity ==
            computeComplexityScore(langs.totalBytes, langs.numLanguages,
                                   Len(data.commits), hasComplexityKeywordsIn(data.commits),
                                   seg.activeDays, Len(blocks),
                                   repo.has_issues, repo.has_projects, repo.has_wiki)
    IN  [name |-> repo.name,
         startDate |-> IF Len(blocks) > 0 THEN blocks[1].start ELSE repo.created_at,
         endDate |-> IF ongoing THEN clock
                     ELSE IF Len(blocks) > 0 THEN blocks[Len(blocks)].end
                     ELSE repo.pushed_at,
         isOngoing |-> ongoing,
         primaryLanguage |-> langs.primary,
         secondaryLanguage |-> langs.secondary,
         stars |-> repo.stargazers_count,
         forks |-> repo.forks_count,
         activeBlocks |-> blocks,
         activeDays |-> seg.activeDays,
         commitCount |-> Len(data.commits),
         documentationScore |-> documentationScore,
         completenessScore |-> completenessScore,
         codeQualityScore |-> codeQualityScore,
         commitQualityScore |-> commitQualityScore,
         maintenanceScore |-> maintenanceScore,
         starScore |-> starScoreVal,
         forkScore |-> forkScoreVal,
         finalScore |-> weightedFinalScore(documentationScore, completenessScore,
                                           codeQualityScore, commitQualityScore,
                                           maintenanceScore, starScoreVal, forkScoreVal),
         complexityScore |-> complexity.score,
         complexityLabel |-> complexity.label,
         segments |-> [i \in DOMAIN blocks |->
                          [start |-> blocks[i].start, end |-> blocks[i].end]]]

(***************************************************************************)
(* Ranking and diversity selection                                         *)
(***************************************************************************)
\* a mutation of InsertByScore: the sort compares the complexity estimate
insertByComplexity(sorted, x) ==
    LET k == Cardinality({i \in DOMAIN sorted : sorted[i].complexityScore >= x.complexityScore})
    IN  SubSeq(sorted, 1, k) \o <<x>> \o SubSeq(sorted, k + 1, Len(sorted))

\* a mutation of InsertByScore: a repository is put in front of those of
\* equal score (an unstable sort)
insertByScoreTiesFirst(sorted, x) ==
    LET k == Cardinality({i \in DOMAIN sorted : sorted[i].finalScore > x.finalScore})
    IN  SubSeq(sorted, 1, k) \o <<x>> \o SubSeq(sorted, k + 1, Len(sorted))

\* one step of the (stable) sort by (a, b) => b.finalScore - a.finalScore
InsertByScore(sorted, x) ==
    LET k == Cardinality({i \in DOMAIN sorted : sorted[i].finalScore >= x.finalScore})
    IN  SubSeq(sorted, 1, k) \o <<x>> \o SubSeq(sorted, k + 1, Len(sorted))

\* a mutation of sortByFinalScore: the list is left in input order
leftUnsorted(list) == list

\* processed.sort((a, b) => b.finalScore - a.finalScore)
RECURSIVE sortByFinalScore(_)
sortByFinalScore(list) ==
    IF list = <<>> THEN <<>>
    ELSE InsertByScore(sortByFinalScore(SubSeq(list, 1, Len(list) - 1)), list[Len(list)])

\* a mutation of top8: no cut of the candidate pool
wholeList(list) == list

\* processed.slice(0, 8)
top8(list) == SubSeq(list, 1, Min(PoolSize, Len(list)))

\* a mutation of capReached: one repository per language
capReachedAtOne(count, maxPerLang) == count >= 1

\* a mutation of capReached: one repository too many per language
capExceeded(count, maxPerLang) == count > maxPerLang

\* count >= maxPerLang
capReached(count, maxPerLang) == count >= maxPerLang

\* a mutation of admit: the admitted repository is put in front
admitInFront(result, repo) == <<repo>> \o result

\* result.push(repo)
admit(result, repo) == Append(result, repo)

\* the for-of loop of applyDiversityFilter from repos[i] on; langCounts maps
\* the languages seen so far to their counts
RECURSIVE diversityLoop(_, _, _, _, _, _)
diversityLoop(rs, i, langCounts, result, maxPerLang, finalCount) ==
    IF i > Len(rs) THEN result
    ELSE LET repo == rs[i]
             lang == repo.primaryLanguage
             count == IF lang \in DOMAIN langCounts THEN langCounts[lang] ELSE 0
         IN  IF capReached(count, maxPerLang)
             THEN diversityLoop(rs, i + 1, langCounts, result, maxPerLang, finalCount)
             ELSE LET counts2 == [l \in DOMAIN langCounts \cup {lang} |->
                                     IF l = lang THEN count + 1 ELSE langCounts[l]]
                      result2 == admit(result, repo)
                  IN  IF Len(result2) >= finalCount
                      THEN result2
                      ELSE diversityLoop(rs, i + 1, counts2, result2,
                                         maxPerLang, finalCount)

applyDiversityFilter(rs, maxPerLang, finalCount) ==
    diversityLoop(rs, 1, [l \in {} |-> 0], <<>>, maxPerLang, finalCount)

\* process.ts 612-621: sort, cut to the pool, diversity pass
selectFinal(list, target) ==
    applyDiversityFilter(top8(sortByFinalScore(list)), MaxPerLang, target)

(***************************************************************************)
(* Idle values: what a specification leaves untouched                      *)
(***************************************************************************)
NoRun ==
    /\ repos = <<>> /\ username = <<>> /\ maxRepos = 0 /\ now = 0
    /\ filtered = <<>> /\ enriched = <<>> /\ processed = <<>> /\ output = <<>>
NoSegmentation == commits = <<>> /\ segmentation = [blocks |-> <<>>, activeDays |-> 0]
NoScoring == scoreIn = <<>> /\ scoreOut = <<>>

(***************************************************************************)
(* SpecBlocks: the segmentation of one repository's commit list            *)
(* (processRepos, "Parse commit dates" and "Active development blocks")    *)
(***************************************************************************)
Days(n) == n * HoursPerDay

\* instants a commit may carry: same day, within the gap, exactly at the gap,
\* one hour beyond it, and far beyond it
CommitInstants ==
    {0, 12, Days(5), Days(30), Days(30) + 1, Days(40), Days(45), Days(76)}

DateStrings ==
    { [valid |-> TRUE, t |-> x] : x \in CommitInstants }
        \cup { [valid |-> FALSE, t |-> 0] }

PlainMessage == <<"f", "i", "x", ":", " ", "x">>

InitBlocks ==
    /\ NoRun /\ NoScoring
    /\ pc = "commits"
    /\ commits \in SeqUpTo({ [date |-> d, message |-> PlainMessage] : d \in DateStrings },
                           MaxCommits)
    /\ segmentation = [blocks |-> <<>>, activeDays |-> 0]

\* process.ts 492-497: parse, drop the unparsable dates, segment
Segment ==
    /\ pc = "commits"
    /\ segmentation' = buildActiveBlocks(parseCommitDates(commits))
    /\ pc' = "segmented"
    /\ UNCHANGED <<repos, username, maxRepos, now, filtered, enriched, processed,
                   output, commits, scoreIn, scoreOut>>

\* the same commits handed over in another order (two neighbours swapped),
\* and segmented again
SegmentReordered ==
    /\ pc = "segmented"
    /\ \E i \in 1..(Len(commits) - 1) :
          commits' = [commits EXCEPT ![i] = commits[i + 1], ![i + 1] = commits[i]]
    /\ segmentation' = buildActiveBlocks(parseCommitDates(commits'))
    /\ UNCHANGED <<repos, username, maxRepos, now, pc, filtered, enriched, processed,
                   output, scoreIn, scoreOut>>

NextBlocks == Segment \/ SegmentReordered

SpecBlocks == InitBlocks /\ [][NextBlocks]_vars

(***************************************************************************)
(* Claims about the segmentation (checked under SpecBlocks)                *)
(***************************************************************************)
\* the instants of the parsable commits, as a set
ValidInstants == { commits[i].date.t : i \in { j \in DOMAIN commits : commits[j].date.valid } }

\* the commit right before t in time order (t is not the earliest)
Predecessor(T, t) == CHOOSE p \in T : p < t /\ \A q \in T : q < t => q <= p

\* the commits that come more than 30 days after the commit before them
LateCommits(T) ==
    { t \in T : (\E p \in T : p < t)
                  /\ t - Predecessor(T, t) > INACTIVITY_GAP_DAYS * HoursPerDay }

\* C6: the active blocks are chronologically ordered and pairwise
\* non-overlapping (start <= end within a block, a block's end before the next
\* block's start), every block lasts at least one day, and activeDays is the
\* sum of the blocks' durations.
C6_BlocksOrderedDisjointFloored ==
    pc = "segmented" =>
        LET b == segmentation.blocks
        IN  /\ \A i \in DOMAIN b :
                  /\ b[i].start <= b[i].end
                  /\ b[i].durationDays >= 1 * HoursPerDay
                  /\ b[i].durationDays >= b[i].end - b[i].start
            /\ \A i \in DOMAIN b : \A j \in DOMAIN b : i < j => b[i].end < b[j].start
            /\ segmentation.activeDays = SumSeq([i \in DOMAIN b |-> b[i].durationDays])

\* C6 witness: three blocks came out, one of them a single instant floored to a day
C6_Witness ==
    /\ pc = "segmented"
    /\ Len(segmentation.blocks) = 3
    /\ \E i \in DOMAIN segmentation.blocks :
          /\ segmentation.blocks[i].start = segmentation.blocks[i].end
          /\ segmentation.blocks[i].durationDays = HoursPerDay

\* C7: the blocks are the maximal runs of the time-ordered commits: one block
\* more than there are gaps of more than 30 days, each block starting and
\* ending at a commit, every commit inside exactly one block, no gap of more
\* than 30 days inside a block, more than 30 days between two blocks; commits
\* at days 0, 5, 40, 45 give the blocks [0,5] and [40,45] of 5 days each,
\* 10 active days in all.
C7_BlocksAreMaximalRuns ==
    pc = "segmented" =>
        LET b == segmentation.blocks
            T == ValidInstants
        IN  /\ (T = {}) => (b = <<>>)
            /\ (T # {}) => (Len(b) = 1 + Cardinality(LateCommits(T)))
            /\ \A i \in DOMAIN b : b[i].start \in T /\ b[i].end \in T
            /\ \A t \in T :
                  Cardinality({ i \in DOMAIN b : b[i].start <= t /\ t <= b[i].end }) = 1
            /\ \A i \in DOMAIN b : \A t \in T :
                  (b[i].start < t /\ t <= b[i].end) => t \notin LateCommits(T)
            /\ \A i \in DOMAIN b :
                  (i > 1) => /\ b[i].start \in LateCommits(T)
                             /\ b[i].start - b[i - 1].end > INACTIVITY_GAP_DAYS * HoursPerDay
                             /\ Predecessor(T, b[i].start) = b[i - 1].end
            /\ (T = {0, Days(5), Days(40), Days(45)}) =>
                  /\ b = << [start |-> 0, end |-> Days(5), durationDays |-> Days(5)],
                            [start |-> Days(40), end |-> Days(45), durationDays |-> Days(5)] >>
                  /\ segmentation.activeDays = Days(10)

\* C7 witness: the commits of days 0, 5, 40, 45 were segmented, given newest first
C7_Witness ==
    /\ pc = "segmented"
    /\ Len(commits) = 4
    /\ commits[1].date.valid /\ commits[1].date.t = Days(45)
    /\ ValidInstants = {0, Days(5), Days(40), Days(45)}
    /\ Len(segmentation.blocks) = 2

\* C8: segmenting the same commits in another order gives the same blocks and
\* the same activeDays.
C8_SegmentationIgnoresOrder ==
    [][(pc = "segmented" /\ pc' = "segmented") => segmentation' = segmentation]_vars

\* C8 witness: a list that came out of time order was segmented into two blocks
C8_Witness ==
    /\ pc = "segmented"
    /\ Len(commits) >= 3
    /\ \A i \in DOMAIN commits : commits[i].date.valid
    /\ \E i \in DOMAIN commits : \E j \in DOMAIN commits :
          i < j /\ commits[i].date.t > commits[j].date.t
    /\ Len(segmentation.blocks) = 2

\* the earliest and the latest of a non-empty set of instants
Earliest(T) == CHOOSE t \in T : \A u \in T : t <= u
Latest(T) == CHOOSE t \in T : \A u \in T : u <= t

\* C25: for a non-empty commit set activeDays is at most max(1 day, time
\* from the earliest to the latest commit), although every block counts for
\* a day at least.
C25_ActiveDaysWithinSpan ==
    (pc = "segmented" /\ ValidInstants # {}) =>
        /\ segmentation.activeDays
              <= Max(1 * HoursPerDay, Latest(ValidInstants) - Earliest(ValidInstants))
        /\ \A i \in DOMAIN segmentation.blocks :
              segmentation.blocks[i].durationDays >= 1 * HoursPerDay

\* C25 witness: two commits 30 days and one hour apart, each a block of its
\* own that counts for a day
C25_Witness ==
    /\ pc = "segmented"
    /\ ValidInstants = {0, Days(30) + 1}
    /\ Len(segmentation.blocks) = 2
    /\ \A i \in DOMAIN segmentation.blocks :
          segmentation.blocks[i].start = segmentation.blocks[i].end
    /\ segmentation.activeDays = Days(2)

(***************************************************************************)
(* SpecCommitSets: the segmentation of a commit list and of the same list  *)
(* with records taken away or added                                        *)
(***************************************************************************)
\* the same commits without the records whose date does not parse, segmented
\* again
SegmentWithoutUnparsable ==
    /\ pc = "segmented"
    /\ \E i \in DOMAIN commits : ~commits[i].date.valid
    /\ commits' = SelectSeq(commits, LAMBDA c : c.date.valid)
    /\ segmentation' = buildActiveBlocks(parseCommitDates(commits'))
    /\ UNCHANGED <<repos, username, maxRepos, now, pc, filtered, enriched, processed,
                   output, scoreIn, scoreOut>>

\* the same commits and one more with a date that parses, segmented again
SegmentWithOneMore ==
    /\ pc = "segmented"
    /\ Len(commits) < MaxCommits
    /\ \E t \in CommitInstants :
          commits' = Append(commits, [date |-> [valid |-> TRUE, t |-> t],
                                      message |-> PlainMessage])
    /\ segmentation' = buildActiveBlocks(parseCommitDates(commits'))
    /\ UNCHANGED <<repos, username, maxRepos, now, pc, filtered, enriched, processed,
                   output, scoreIn, scoreOut>>

NextCommitSets == Segment \/ SegmentWithoutUnparsable \/ SegmentWithOneMore

SpecCommitSets == InitBlocks /\ [][NextCommitSets]_vars

(***************************************************************************)
(* Claims about commit sets (checked under SpecCommitSets)                 *)
(***************************************************************************)
\* C23: commit records whose date does not parse are dropped before the
\* segmentation: a commit list gives the blocks and the activeDays of the same
\* list without those records, and a list that holds such records is
\* segmented like any other.
C23_UnparsableDatesDropped ==
    [][(pc = "segmented" /\ pc' = "segmented" /\ Len(commits') < Len(commits))
          => /\ segmentation' = segmentation
             /\ \A i \in DOMAIN segmentation.blocks :
                   /\ segmentation.blocks[i].start \in ValidInstants
                   /\ segmentation.blocks[i].end \in ValidInstants]_vars

\* C23 witness: two records without a parsable date among the commits of day
\* 40 and of day 0, segmented into two blocks of one day
C23_Witness ==
    /\ pc = "segmented"
    /\ Len(commits) = 4
    /\ ~commits[1].date.valid /\ ~commits[3].date.valid
    /\ ValidInstants = {0, Days(40)}
    /\ Len(segmentation.blocks) = 2
    /\ segmentation.activeDays = Days(2)

\* the segmentation of the commit list without its last record
WithoutLastCommit ==
    buildActiveBlocks(parseCommitDates(SubSeq(commits, 1, Len(commits) - 1)))

\* C24: one more commit with a valid timestamp never lowers activeDays,
\* whether it extends a block, opens a block or joins two blocks into one.
C24_OneMoreCommitNeverLowersActiveDays ==
    [][(pc = "segmented" /\ pc' = "segmented" /\ Len(commits') > Len(commits))
          => segmentation'.activeDays >= segmentation.activeDays]_vars

\* C24 witness: the commits of day 0 and of day 30 plus one hour made two
\* blocks of a day each; the commit of day 5, last in the list, joined them
\* into one block
C24_Witness ==
    /\ pc = "segmented"
    /\ Len(commits) = 3
    /\ \A i \in DOMAIN commits : commits[i].date.valid
    /\ commits[3].date.t = Days(5)
    /\ Len(WithoutLastCommit.blocks) = 2
    /\ WithoutLastCommit.activeDays = Days(2)
    /\ Len(segmentation.blocks) = 1
    /\ segmentation.activeDays = Days(30) + 1

(***************************************************************************)
(* SpecSelect: the selection stage of processRepos on a scored list        *)
(***************************************************************************)
DecimalDigits == <<"0", "1", "2", "3", "4", "5", "6", "7", "8", "9">>

RECURSIVE Decimal(_)
Decimal(n) ==
    IF n < 10 THEN <<DecimalDigits[n + 1]>>
    ELSE Decimal(n \div 10) \o <<DecimalDigits[(n % 10) + 1]>>

CandidateName(i) == <<"r">> \o Decimal(i)

SelectLanguages == {"TypeScript", "Python"}

\* finalScore 40.00 and 70.00
LowScore == 40 * 100
HighScore == 70 * 100

\* n candidates; the first k of the list score low and the others high, so
\* that the sort has to move the later ones in front; any language each
InitSelect ==
    /\ NoSegmentation /\ NoScoring
    /\ repos = <<>> /\ username = <<>> /\ now = 0
    /\ filtered = <<>> /\ enriched = <<>> /\ output = <<>>
    /\ pc = "candidates"
    /\ maxRepos \in 1..MaxSelectTarget
    /\ \E n \in 0..MaxCandidates : \E k \in 0..n : \E lang \in [1..n -> SelectLanguages] :
          processed = [i \in 1..n |->
                          [name |-> CandidateName(i),
                           primaryLanguage |-> lang[i],
                           finalScore |-> IF i <= k THEN LowScore ELSE HighScore]]

Select ==
    /\ pc = "candidates"
    /\ output' = selectFinal(processed, maxRepos)
    /\ pc' = "selected"
    /\ UNCHANGED <<repos, username, maxRepos, now, filtered, enriched, processed,
                   commits, segmentation, scoreIn, scoreOut>>

NextSelect == Select

SpecSelect == InitSelect /\ [][NextSelect]_vars

(***************************************************************************)
(* Claims about the selection (checked under SpecSelect)                   *)
(***************************************************************************)
RECURSIVE IsSubsequence(_, _)
IsSubsequence(a, b) ==
    IF a = <<>> THEN TRUE
    ELSE IF b = <<>> THEN FALSE
    ELSE IF Head(a) = Head(b) THEN IsSubsequence(Tail(a), Tail(b))
    ELSE IsSubsequence(a, Tail(b))

CountOfLanguage(list, lang) ==
    Cardinality({ i \in DOMAIN list : list[i].primaryLanguage = lang })

LanguagesOf(list) == { list[i].primaryLanguage : i \in DOMAIN list }

\* rank of candidate i by descending score, ties in input order
RankOf(list, i) ==
    Cardinality({ j \in DOMAIN list :
                    \/ list[j].finalScore > list[i].finalScore
                    \/ (list[j].finalScore = list[i].finalScore /\ j <= i) })

\* the candidates of rank 1..8
Pool(list) == { i \in DOMAIN list : RankOf(list, i) <= 8 }

RECURSIVE SumOver(_, _)
SumOver(S, f) ==
    IF S = {} THEN 0
    ELSE LET x == CHOOSE y \in S : TRUE IN f[x] + SumOver(S \ {x}, f)

\* how many pool candidates the cap of 2 per language lets through
Admissible(list) ==
    LET langs == { list[i].primaryLanguage : i \in Pool(list) }
    IN  SumOver(langs, [l \in langs |->
                          Min(2, Cardinality({ i \in Pool(list) :
                                                 list[i].primaryLanguage = l }))])

\* C2: no primary language occurs more than twice in the final output.
C2_LanguageCapHolds ==
    pc = "selected" =>
        \A lang \in LanguagesOf(processed) : CountOfLanguage(output, lang) <= 2

\* C2 witness: a language with more than two pool candidates got exactly two places
C2_Witness ==
    /\ pc = "selected"
    /\ \E lang \in LanguagesOf(processed) :
          /\ Cardinality({ i \in Pool(processed) : processed[i].primaryLanguage = lang }) > 2
          /\ CountOfLanguage(output, lang) = 2
    /\ Len(output) = 4

\* C3: the output is a subsequence of the score-ranked candidate list: its
\* repositories stand in non-increasing finalScore order and in the order
\* the ranking gave them.
C3_OutputKeepsRankOrder ==
    pc = "selected" =>
        /\ \A i \in DOMAIN output : \A j \in DOMAIN output :
              i < j => output[i].finalScore >= output[j].finalScore
        /\ \A i \in DOMAIN output : \A j \in DOMAIN output :
              i < j =>
                \E a \in DOMAIN processed : \E b \in DOMAIN processed :
                    /\ processed[a] = output[i] /\ processed[b] = output[j]
                    /\ RankOf(processed, a) < RankOf(processed, b)
        /\ IsSubsequence(output, sortByFinalScore(processed))

\* C3 witness: the sort moved later candidates in front, the cap skipped a
\* candidate between two admitted ones, and both score levels were admitted
C3_Witness ==
    /\ pc = "selected"
    /\ Len(output) >= 3
    /\ output[1].finalScore > output[Len(output)].finalScore
    /\ processed[1].finalScore < processed[Len(processed)].finalScore
    /\ output # SubSeq(sortByFinalScore(processed), 1, Len(output))

InputIndex(r) == CHOOSE i \in DOMAIN processed : processed[i] = r

\* C19: the ranking is by descending finalScore and stable: the pool holds,
\* rank by rank, the candidates of rank 1..8 where candidates of equal
\* finalScore rank in input order, and two repositories of equal finalScore
\* stand in the output in the order they had in the input.
C19_TiesKeepInputOrder ==
    pc = "selected" =>
        LET pool == top8(sortByFinalScore(processed))
        IN  /\ Len(pool) = Min(8, Len(processed))
            /\ \A k \in DOMAIN pool :
                  \E i \in DOMAIN processed :
                      RankOf(processed, i) = k /\ pool[k] = processed[i]
            /\ \A a \in DOMAIN pool : \A b \in DOMAIN pool :
                  (a < b /\ pool[a].finalScore = pool[b].finalScore)
                      => InputIndex(pool[a]) < InputIndex(pool[b])
            /\ \A a \in DOMAIN output : \A b \in DOMAIN output :
                  (a < b /\ output[a].finalScore = output[b].finalScore)
                      => InputIndex(output[a]) < InputIndex(output[b])

\* C19 witness: nine candidates of one and the same finalScore; the cut left
\* out the last of the input, and the output starts with the first
C19_Witness ==
    /\ pc = "selected"
    /\ Len(processed) = 9
    /\ \A i \in DOMAIN processed : processed[i].finalScore = processed[1].finalScore
    /\ Len(output) >= 3
    /\ output[1] = processed[1]
    /\ \A k \in DOMAIN output : output[k] # processed[9]
    /\ CountOfLanguage(output, processed[9].primaryLanguage) < 2

\* the positions of the rank-ordered pool whose repository is in the output
AdmittedOf(pool) == { k \in DOMAIN pool : \E m \in DOMAIN output : output[m] = pool[k] }

\* two repositories of the k-th's primary language were admitted above it
CapHit(pool, admitted, k) ==
    Cardinality({ j \in admitted :
                    j < k /\ pool[j].primaryLanguage = pool[k].primaryLanguage }) >= 2

\* the target size was reached before the turn of the k-th
TargetHit(admitted, k) == Cardinality({ j \in admitted : j < k }) >= maxRepos

\* C28: the diversity pass is greedy over the pool of the top 8: a pool
\* repository is left out only if two higher-ranked repositories of its
\* primary language were already admitted or the target size was reached
\* before its turn; every other pool repository is admitted.
C28_GreedyOverThePool ==
    pc = "selected" =>
        LET pool == top8(sortByFinalScore(processed))
            admitted == AdmittedOf(pool)
        IN  /\ \A k \in DOMAIN pool :
                  (k \notin admitted) => (CapHit(pool, admitted, k) \/ TargetHit(admitted, k))
            /\ \A k \in DOMAIN pool :
                  (~CapHit(pool, admitted, k) /\ ~TargetHit(admitted, k)) => (k \in admitted)
            /\ \A m \in DOMAIN output : \E k \in DOMAIN pool : output[m] = pool[k]

\* C28 witness: a pool repository left out for the cap alone, a lower-ranked
\* one admitted after it, and a still lower one of a language with room left
\* out for the target alone
C28_Witness ==
    /\ pc = "selected"
    /\ LET pool == top8(sortByFinalScore(processed))
           admitted == AdmittedOf(pool)
       IN  \E k \in DOMAIN pool : \E m \in DOMAIN pool : \E n \in DOMAIN pool :
              /\ k < m /\ m < n
              /\ k \notin admitted /\ CapHit(pool, admitted, k) /\ ~TargetHit(admitted, k)
              /\ m \in admitted
              /\ n \notin admitted /\ ~CapHit(pool, admitted, n) /\ TargetHit(admitted, n)

(***************************************************************************)
(* SpecScore: the scoring of one repository of a run                       *)
(* (processRepos, the callback that builds a ProcessedRepo)                *)
(***************************************************************************)
Commit(t, message) == [date |-> [valid |-> TRUE, t |-> t], message |-> message]

UndatedCommit(message) == [date |-> [valid |-> FALSE, t |-> 0], message |-> message]

MsgWip == <<"W", "I", "P">>
MsgTest == <<"t", "e", "s", "t", "1", "2">>
MsgTypos == <<"t", "y", "p", "o", "s">>
MsgRefactored == <<"r", "e", "f", "a", "c", "t", "o", "r", "e", "d">>
MsgTwoLines ==
    <<" ", "u", "p", " ", "\n", "l", "o", "n", "g", "e", "r", " ", "b", "o", "d", "y">>

\* no commit; two commits without a parsable date; one noise commit; one
\* meaningful commit; five commits of which two are meaningful and one is
\* undated, on three days; thirty meaningful commits on thirty days
CommitLists ==
    { <<>>,
      <<UndatedCommit(PlainMessage), UndatedCommit(MsgWip)>>,
      <<Commit(Days(100), MsgWip)>>,
      <<Commit(Days(100), PlainMessage)>>,
      <<Commit(Days(110), PlainMessage), Commit(Days(105) + 5, MsgTest),
        Commit(Days(105) + 7, MsgTypos), Commit(Days(100), MsgRefactored),
        UndatedCommit(MsgTwoLines)>>,
      [i \in 1..30 |-> Commit(Days(100 + i), PlainMessage)] }

ReadmeInfos ==
    { [exists |-> FALSE, length |-> 0, hasUsageSection |-> FALSE],
      [exists |-> TRUE, length |-> 199, hasUsageSection |-> FALSE],
      [exists |-> TRUE, length |-> 500, hasUsageSection |-> TRUE],
      [exists |-> TRUE, length |-> 2000, hasUsageSection |-> TRUE] }

File(name) == [name |-> name, type |-> "file"]
Dir(name) == [name |-> name, type |-> "dir"]

\* nothing; everything the seven checks look for; the same without tests; CI
\* directory, a config file and a test file only; the right names under the
\* wrong type
RootListings ==
    { <<>>,
      <<File("package.json"), File("Dockerfile"), File(".gitignore"),
        File(".env.local"), Dir("Src"), Dir("tests"), File(".eslintrc"),
        File("README.md")>>,
      <<File("package.json"), File("Dockerfile"), File(".gitignore"),
        File(".env.local"), Dir("Src"), File(".eslintrc")>>,
      <<Dir(".github"), File("tsconfig.json"), File("app.test.js")>>,
      <<File("src"), Dir("package.json"), Dir(".gitignore"), File("tests")>> }

\* the instant of the run
RunInstant == Days(500)

\* how long before the run the last push was
PushAges == {Days(1), Days(30), Days(100), Days(200), Days(400)}

IssueSettings ==
    { [has_issues |-> FALSE, open_issues_count |-> 0],
      [has_issues |-> TRUE, open_issues_count |-> 10],
      [has_issues |-> TRUE, open_issues_count |-> 51] }

Snapshot(name, fork, archived, size, pushedAt, stars, forks, issues, license) ==
    [name |-> name, fork |-> fork, archived |-> archived, size |-> size,
     created_at |-> Days(50), pushed_at |-> pushedAt,
     stargazers_count |-> stars, forks_count |-> forks,
     has_issues |-> issues.has_issues, open_issues_count |-> issues.open_issues_count,
     has_projects |-> FALSE, has_wiki |-> FALSE, license |-> license]

InitScore ==
    /\ NoSegmentation
    /\ repos = <<>> /\ username = <<>> /\ maxRepos = 0
    /\ filtered = <<>> /\ enriched = <<>> /\ processed = <<>> /\ output = <<>>
    /\ now = RunInstant
    /\ pc = "scoring"
    /\ scoreOut = <<>>
    /\ \E readme \in ReadmeInfos, license \in {"null", "mit"}, listing \in RootListings,
          cs \in CommitLists, tags \in {0, 1}, age \in PushAges, issues \in IssueSettings,
          stars \in {0, 1, 3}, forks \in {0, 3}, peak \in {0, 7} :
          scoreIn =
            [repo |-> Snapshot(<<"c">>, FALSE, FALSE, MinSizeKB, RunInstant - age,
                               stars, forks, issues, license),
             data |-> [commits |-> cs, languages |-> <<>>, readmeInfo |-> readme,
                       tagsCount |-> tags, rootContents |-> listing],
             \* the other survivors of the run
             peers |-> <<Snapshot(<<"d">>, FALSE, FALSE, MinSizeKB, RunInstant,
                                  peak, peak, issues, "null")>>]

Score ==
    /\ pc = "scoring"
    /\ LET run == <<scoreIn.repo>> \o scoreIn.peers
       IN  scoreOut' = buildProcessedRepo(scoreIn.repo, scoreIn.data,
                                          maxStarsOf(run), maxForksOf(run), now)
    /\ pc' = "scored"
    /\ UNCHANGED <<repos, username, maxRepos, now, filtered, enriched, processed,
                   output, commits, segmentation, scoreIn>>

NextScore == Score

SpecScore == InitScore /\ [][NextScore]_vars

(***************************************************************************)
(* Claims about the scoring (checked under SpecScore)                      *)
(***************************************************************************)
SubScores(r) ==
    <<r.documentationScore, r.completenessScore, r.codeQualityScore,
      r.commitQualityScore, r.maintenanceScore, r.starScore, r.forkScore>>

\* the weights of the seven sub-scores, in percent
WeightPercent == <<25, 20, 20, 10, 10, 10, 5>>

\* 100 x the weighted sum of the sub-scores, in units of 1e-4 point
WeightedSum(r) == SumSeq([i \in 1..7 |-> WeightPercent[i] * SubScores(r)[i]])

\* C9: each of the seven sub-scores lies in [0,1] and finalScore in [0,100].
C9_ScoresInRange ==
    pc = "scored" =>
        /\ \A i \in 1..7 : SubScores(scoreOut)[i] \in 0..ScoreUnit
        /\ scoreOut.finalScore \in 0..(100 * 100)

\* C9 witness: a repository that reaches the top of every range
C9_Witness ==
    /\ pc = "scored"
    /\ \A i \in 1..7 : SubScores(scoreOut)[i] = ScoreUnit
    /\ scoreOut.finalScore = 100 * 100

\* C10: finalScore is 100 x (0.25 documentation + 0.20 completeness + 0.20
\* codeQuality + 0.10 commitQuality + 0.10 maintenance + 0.10 stars + 0.05
\* forks) rounded to two decimals; the weights sum to 1, so seven sub-scores
\* of 1 give 100 and seven of 0 give 0.
C10_FinalScoreIsWeightedSum ==
    /\ SumSeq(WeightPercent) = 100
    /\ weightedFinalScore(0, 0, 0, 0, 0, 0, 0) = 0
    /\ weightedFinalScore(ScoreUnit, ScoreUnit, ScoreUnit, ScoreUnit,
                          ScoreUnit, ScoreUnit, ScoreUnit) = 100 * 100
    /\ pc = "scored" =>
          /\ 100 * scoreOut.finalScore - WeightedSum(scoreOut) \in (-49)..50
          /\ (\A i \in 1..7 : SubScores(scoreOut)[i] = ScoreUnit)
                => scoreOut.finalScore = 100 * 100

\* C10 witness: a weighted sum that falls between two hundredths and is rounded up
C10_Witness ==
    /\ pc = "scored"
    /\ WeightedSum(scoreOut) % 100 >= 50
    /\ 100 * scoreOut.finalScore > WeightedSum(scoreOut)
    /\ scoreOut.commitQualityScore > 0

\* the repositories of the run the scored repository belongs to
RunOf(input) == <<input.repo>> \o input.peers

\* C17: no division of the scoring has a zero divisor: maxStars and maxForks
\* are at least 1, so the logarithms the star and fork ratios are divided by
\* are positive; the active-day divisor of the commit density is at least one
\* day; and with an empty commit list the commit quality is 0, the fraction
\* of meaningful messages not being formed.
C17_NoZeroDivisor ==
    pc = "scored" =>
        /\ maxStarsOf(RunOf(scoreIn)) >= 1
        /\ maxForksOf(RunOf(scoreIn)) >= 1
        /\ log(maxStarsOf(RunOf(scoreIn)) + 1) > 0
        /\ log(maxForksOf(RunOf(scoreIn)) + 1) > 0
        /\ safeActiveDays(scoreOut.activeDays) >= 1 * HoursPerDay
        /\ (Len(scoreIn.data.commits) = 0) => (scoreOut.commitQualityScore = 0)
        /\ (scoreOut.commitQualityScore > 0) => (Len(scoreIn.data.commits) > 0)

\* C17 witness: a run without any star or fork, the repository without any
\* commit and so without an active day
C17_Witness ==
    /\ pc = "scored"
    /\ \A i \in DOMAIN RunOf(scoreIn) :
          RunOf(scoreIn)[i].stargazers_count = 0 /\ RunOf(scoreIn)[i].forks_count = 0
    /\ scoreIn.data.commits = <<>>
    /\ scoreIn.data.tagsCount = 1
    /\ scoreOut.activeDays = 0
    /\ scoreOut.starScore = 0 /\ scoreOut.forkScore = 0 /\ scoreOut.commitQualityScore = 0

\* a root listing holds a test directory or a test file
HasTests(listing) ==
    \E i \in DOMAIN listing :
        \/ /\ listing[i].type = "dir"
           /\ listing[i].name \in {"tests", "test", "__tests__", "spec", "testing",
                                    "e2e", "cypress"}
        \/ /\ listing[i].type = "file"
           /\ listing[i].name \in {"app.test.js", "app.spec.ts"}

\* the scenario: 0 stars, 0 forks, no README, no tests, last pushed 400 days
\* before the run, exactly one commit
BareRepository ==
    /\ pc = "scored"
    /\ scoreIn.repo.stargazers_count = 0
    /\ scoreIn.repo.forks_count = 0
    /\ ~scoreIn.data.readmeInfo.exists
    /\ ~HasTests(scoreIn.data.rootContents)
    /\ now - scoreIn.repo.pushed_at = Days(400)
    /\ Len(scoreIn.data.commits) = 1

\* C18 as claimed: the scenario gives documentationScore = 0.08, starScore =
\* 0, forkScore = 0, maintenanceScore <= 0.08 and finalScore <= 10.
C18_BareRepositoryAsClaimed ==
    BareRepository =>
        /\ scoreOut.documentationScore = 800
        /\ scoreOut.starScore = 0
        /\ scoreOut.forkScore = 0
        /\ scoreOut.maintenanceScore <= 800
        /\ scoreOut.finalScore <= 10 * 100

\* C18 as amended: the scenario gives documentationScore = 0.1 with a license
\* and 0 without, starScore = 0, forkScore = 0, maintenanceScore = 0.12 with
\* issues disabled and 0.52, 0.36 or 0.24 with issues enabled (at most 10, at
\* most 50, more open issues), and finalScore <= 48.7.
C18_BareRepositoryScores ==
    BareRepository =>
        /\ scoreOut.documentationScore =
              (IF scoreIn.repo.license # "null" THEN 1000 ELSE 0)
        /\ scoreOut.starScore = 0
        /\ scoreOut.forkScore = 0
        /\ scoreOut.maintenanceScore =
              1200 + (IF ~scoreIn.repo.has_issues THEN 0
                      ELSE IF scoreIn.repo.open_issues_count <= 10 THEN 4000
                      ELSE IF scoreIn.repo.open_issues_count <= 50 THEN 2400
                      ELSE 1200)
        /\ scoreOut.maintenanceScore \in 1200..5200
        /\ scoreOut.finalScore <= 4870

\* C18 witness: a repository of the scenario with a license, issues enabled, a
\* tag, a meaningful commit and a complete root listing reaches 48.7
C18_Witness ==
    /\ BareRepository
    /\ scoreIn.repo.license # "null"
    /\ scoreIn.repo.has_issues
    /\ scoreOut.documentationScore = 1000
    /\ scoreOut.maintenanceScore = 5200
    /\ scoreOut.finalScore = 4870

\* C21: starScore is 0 for a repository without stars and otherwise
\* log(stars + 1) / log(maxStars + 1); for the run's maximum it does not
\* decrease with the star count; it is 1 for exactly the repositories that
\* hold a run maximum of at least 1; the same holds of forkScore and the fork
\* counts; stars and forks together give at most 15 of the 100 points.
C21_LogScaledBonus ==
    pc = "scored" =>
        LET stars == scoreIn.repo.stargazers_count
            forks == scoreIn.repo.forks_count
            maxStars == MaxOfSeq([i \in DOMAIN RunOf(scoreIn) |->
                                     RunOf(scoreIn)[i].stargazers_count])
            maxForks == MaxOfSeq([i \in DOMAIN RunOf(scoreIn) |->
                                     RunOf(scoreIn)[i].forks_count])
        IN  /\ (stars = 0) => (scoreOut.starScore = 0)
            /\ (stars > 0) =>
                  scoreOut.starScore = (log(stars + 1) * ScoreUnit) \div log(maxStars + 1)
            /\ \A fewer \in 0..stars :
                  scoreStars(fewer, maxStarsOf(RunOf(scoreIn))) <= scoreOut.starScore
            /\ (scoreOut.starScore = ScoreUnit) <=> (maxStars >= 1 /\ stars = maxStars)
            /\ (forks = 0) => (scoreOut.forkScore = 0)
            /\ (forks > 0) =>
                  scoreOut.forkScore = (log(forks + 1) * ScoreUnit) \div log(maxForks + 1)
            /\ \A fewer \in 0..forks :
                  scoreForks(fewer, maxForksOf(RunOf(scoreIn))) <= scoreOut.forkScore
            /\ (scoreOut.forkScore = ScoreUnit) <=> (maxForks >= 1 /\ forks = maxForks)
            /\ 10 * scoreOut.starScore + 5 * scoreOut.forkScore <= 15 * ScoreUnit
            /\ scoreOut.finalScore
                  - weightedFinalScore(scoreOut.documentationScore,
                                       scoreOut.completenessScore,
                                       scoreOut.codeQualityScore,
                                       scoreOut.commitQualityScore,
                                       scoreOut.maintenanceScore, 0, 0) <= 15 * 100

\* C21 witness: one star where the run's maximum is seven (log 2 / log 8 =
\* 1/3) and three forks where it is seven (log 4 / log 8 = 2/3)
C21_Witness ==
    /\ pc = "scored"
    /\ scoreIn.repo.stargazers_count = 1
    /\ scoreIn.repo.forks_count = 3
    /\ maxStarsOf(RunOf(scoreIn)) = 7
    /\ scoreOut.starScore \in 3332..3334
    /\ scoreOut.forkScore \in 6665..6667

\* the scored repository has no commit with a date that parses
NoValidCommitDate ==
    /\ pc = "scored"
    /\ \A i \in DOMAIN scoreIn.data.commits : ~scoreIn.data.commits[i].date.valid

\* C26: a repository without any valid commit timestamp (no commit fetched,
\* or no date that parses) gets an empty activeBlocks list, an empty segments
\* list and activeDays = 0, never a block from created_at to pushed_at; its
\* startDate is created_at and its endDate is pushed_at, or the instant of
\* the run when it is ongoing.
C26_NoCommitNoBlock ==
    NoValidCommitDate =>
        /\ scoreOut.activeBlocks = <<>>
        /\ scoreOut.segments = <<>>
        /\ scoreOut.activeDays = 0
        /\ scoreOut.startDate = scoreIn.repo.created_at
        /\ scoreOut.endDate =
              (IF now - scoreIn.repo.pushed_at <= ONGOING_THRESHOLD_DAYS * HoursPerDay
               THEN now ELSE scoreIn.repo.pushed_at)

\* C26 witness: two commits, neither with a date that parses, last push 100
\* days before the run
C26_Witness ==
    /\ NoValidCommitDate
    /\ Len(scoreIn.data.commits) = 2
    /\ now - scoreIn.repo.pushed_at = Days(100)
    /\ scoreOut.commitCount = 2
    /\ scoreOut.activeDays = 0
    /\ scoreOut.endDate = scoreIn.repo.pushed_at
    /\ ~scoreOut.isOngoing

(***************************************************************************)
(* Spec: a run of processRepos                                             *)
(***************************************************************************)
\* the account, and the names of its repositories: the profile repository
\* (the account name in another case) and two projects
AccountName == <<"a", "B">>
ProfileRepoName == <<"A", "b">>
RepoNames == { ProfileRepoName, <<"c">>, <<"d">> }

\* what the snapshot of a repository holds besides the fields the filter reads
Profile(name) ==
    IF name = <<"c">>
    THEN [pushedAt |-> RunInstant - Days(1), stars |-> 1, forks |-> 0,
          issues |-> [has_issues |-> TRUE, open_issues_count |-> 10], license |-> "mit"]
    ELSE IF name = <<"d">>
    THEN [pushedAt |-> RunInstant - Days(400), stars |-> 3, forks |-> 3,
          issues |-> [has_issues |-> FALSE, open_issues_count |-> 0], license |-> "null"]
    ELSE [pushedAt |-> RunInstant - Days(400), stars |-> 7, forks |-> 7,
          issues |-> [has_issues |-> FALSE, open_issues_count |-> 0], license |-> "null"]

\* the snapshots a raw list is made of: every outcome of the four checks
Snapshots ==
    { Snapshot(name, fork, archived, size, Profile(name).pushedAt, Profile(name).stars,
               Profile(name).forks, Profile(name).issues, Profile(name).license) :
        name \in RepoNames, fork \in BOOLEAN, archived \in BOOLEAN,
        size \in {MinSizeKB - 1, MinSizeKB} }

\* what the hosting API holds for a repository name
Remote(name) ==
    IF name = <<"c">>
    THEN [commits |-> <<Commit(Days(110), PlainMessage), Commit(Days(105) + 5, MsgTest),
                        Commit(Days(105) + 7, MsgTypos), Commit(Days(100), MsgRefactored),
                        UndatedCommit(MsgTwoLines)>>,
          languages |-> <<[lang |-> "CSS", bytes |-> 99],
                          [lang |-> "TypeScript", bytes |-> 900]>>,
          readmeInfo |-> [exists |-> TRUE, length |-> 2000, hasUsageSection |-> TRUE],
          tagsCount |-> 1,
          rootContents |-> <<File("package.json"), File("Dockerfile"), File(".gitignore"),
                             File(".env.local"), Dir("Src"), Dir("tests"),
                             File(".eslintrc"), File("README.md")>>]
    ELSE [commits |-> <<Commit(Days(100), MsgRefactored)>>,
          languages |-> <<[lang |-> "HTML", bytes |-> 50], [lang |-> "Python", bytes |-> 50]>>,
          readmeInfo |-> [exists |-> TRUE, length |-> 199, hasUsageSection |-> FALSE],
          tagsCount |-> 0,
          rootContents |-> <<Dir(".github"), File("tsconfig.json"), File("app.test.js")>>]

\* the five fetches of a bundle
FetchNames == {"commits", "languages", "readme", "tags", "rootContents"}

\* which of the five fetches of a bundle reject, in a run of Spec
FailureModes ==
    { {}, {"commits"}, {"languages"},
      {"commits", "languages", "readme", "tags", "rootContents"} }

\* a mutation of enrichmentOf: one catch around the five fetches, so that a
\* failing fetch takes the whole bundle to its defaults
enrichmentOfAllOrNothing(name, failed) ==
    IF failed = {}
    THEN [settled |-> TRUE,
          commits |-> Remote(name).commits,
          languages |-> Remote(name).languages,
          readmeInfo |-> Remote(name).readmeInfo,
          tagsCount |-> Remote(name).tagsCount,
          rootContents |-> Remote(name).rootContents]
    ELSE [settled |-> TRUE,
          commits |-> <<>>,
          languages |-> <<>>,
          readmeInfo |-> [exists |-> FALSE, length |-> 0, hasUsageSection |-> FALSE],
          tagsCount |-> 0,
          rootContents |-> <<>>]

\* the bundle the async callback of filtered.map returns: each fetch gives
\* what the API holds, or through its .catch the default of its field
enrichmentOf(name, failed) ==
    [settled |-> TRUE,
     commits |-> IF "commits" \in failed THEN <<>> ELSE Remote(name).commits,
     languages |-> IF "languages" \in failed THEN <<>> ELSE Remote(name).languages,
     readmeInfo |-> IF "readme" \in failed
                    THEN [exists |-> FALSE, length |-> 0, hasUsageSection |-> FALSE]
                    ELSE Remote(name).readmeInfo,
     tagsCount |-> IF "tags" \in failed THEN 0 ELSE Remote(name).tagsCount,
     rootContents |-> IF "rootContents" \in failed THEN <<>> ELSE Remote(name).rootContents]

Pending == [settled |-> FALSE]

\* the raw list is whatever fetchUserRepos concatenated from the pages of the
\* API: any snapshots in any order, a name possibly more than once
Init ==
    /\ NoSegmentation /\ NoScoring
    /\ repos \in SeqUpTo(Snapshots, MaxRepos)
    /\ username = AccountName
    /\ maxRepos \in 1..MaxTarget
    /\ now = RunInstant
    /\ pc = "start"
    /\ filtered = <<>> /\ enriched = <<>> /\ processed = <<>> /\ output = <<>>

\* processRepos up to its first await: the filter, the early return, and the
\* fetches issued for every survivor
Start ==
    /\ pc = "start"
    /\ filtered' = hardFilterRepos(repos, username)
    /\ IF Len(filtered') = 0
       THEN pc' = "done" /\ enriched' = <<>>
       ELSE pc' = "enriching" /\ enriched' = [i \in DOMAIN filtered' |-> Pending]
    /\ output' = <<>>
    /\ UNCHANGED <<repos, username, maxRepos, now, processed,
                   commits, segmentation, scoreIn, scoreOut>>

\* the five fetches of one survivor have settled: its bundle is there
EnrichSettle ==
    /\ pc = "enriching"
    /\ \E i \in DOMAIN enriched : \E failed \in FailureModes :
          /\ ~enriched[i].settled
          /\ enriched' = [enriched EXCEPT ![i] = enrichmentOf(filtered[i].name, failed)]
    /\ UNCHANGED <<repos, username, maxRepos, now, pc, filtered, processed, output,
                   commits, segmentation, scoreIn, scoreOut>>

\* processRepos after await Promise.all(enrichPromises): the maxima, one
\* ProcessedRepo per survivor, the sort, the pool and the diversity pass
Finish ==
    /\ pc = "enriching"
    /\ \A i \in DOMAIN enriched : enriched[i].settled
    /\ LET maxStars == maxStarsOf(filtered)
           maxForks == maxForksOf(filtered)
           scored == [i \in DOMAIN filtered |->
                         buildProcessedRepo(filtered[i], enriched[i],
                                            maxStars, maxForks, now)]
       IN  /\ processed' = scored
           /\ output' = selectFinal(scored, maxRepos)
    /\ pc' = "done"
    /\ UNCHANGED <<repos, username, maxRepos, now, filtered, enriched,
                   commits, segmentation, scoreIn, scoreOut>>

Next == Start \/ EnrichSettle \/ Finish

Spec == Init /\ [][Next]_vars

(***************************************************************************)
(* Claims about a run (checked under Spec)                                 *)
(***************************************************************************)
SameIgnoringCase(a, b) ==
    /\ Len(a) = Len(b)
    /\ \A i \in DOMAIN a : LowerChar(a[i]) = LowerChar(b[i])

\* the four checks of the elimination filter
PassesAllChecks(repo) ==
    /\ ~SameIgnoringCase(repo.name, username)
    /\ ~repo.fork
    /\ ~repo.archived
    /\ repo.size >= 100

\* the positions of the raw list that pass all four checks
Passing == { i \in DOMAIN repos : PassesAllChecks(repos[i]) }

\* the k-th passing position
NthPassing(k) == CHOOSE i \in Passing : Cardinality({ j \in Passing : j <= i }) = k

\* C1: the filter returns exactly the repositories that pass all four checks
\* (name not equal to the account name whatever the case, not a fork, not
\* archived, size >= 100 KB), in input order; and every repository of the
\* final output passed all four.
C1_FilterKeepsExactlyThePassing ==
    /\ pc # "start" =>
          /\ Len(filtered) = Cardinality(Passing)
          /\ \A k \in DOMAIN filtered : filtered[k] = repos[NthPassing(k)]
    /\ pc = "done" =>
          \A k \in DOMAIN output :
              \E i \in Passing : repos[i].name = output[k].name

\* C1 witness: the profile repository, otherwise passing, was removed and the
\* repository after it reached the output
C1_Witness ==
    /\ pc = "done"
    /\ Len(repos) = 2
    /\ repos[1].name = ProfileRepoName
    /\ ~repos[1].fork /\ ~repos[1].archived /\ repos[1].size >= 100
    /\ filtered = <<repos[2]>>
    /\ Len(output) = 1

\* C5: no repository name occurs twice in the final output.
C5_NoRepositoryTwice ==
    pc = "done" =>
        \A i \in DOMAIN output : \A j \in DOMAIN output :
            i # j => output[i].name # output[j].name

\* what does hold: a name occurs in the output at most as often as in the raw list
C5_NoMoreOftenThanGiven ==
    pc = "done" =>
        \A k \in DOMAIN output :
            Cardinality({ j \in DOMAIN output : output[j].name = output[k].name })
                <= Cardinality({ i \in DOMAIN repos : repos[i].name = output[k].name })

\* C15: when the raw list is empty or every repository of it is eliminated,
\* the run ends with an empty list, and no enrichment fetch is ever issued
\* (no bundle is awaited at any point of the run).
C15_NothingLeftGivesEmptyResult ==
    (Passing = {}) =>
        /\ pc \in {"start", "done"}
        /\ enriched = <<>>
        /\ (pc = "done" => filtered = <<>> /\ processed = <<>> /\ output = <<>>)

\* C15 witness: a list of two repositories, a fork and an archived one, was
\* run and returned the empty list
C15_Witness ==
    /\ pc = "done"
    /\ Len(repos) = 2
    /\ repos[1].fork /\ ~repos[1].archived /\ repos[1].size >= 100
    /\ ~repos[2].fork /\ repos[2].archived
    /\ Passing = {}
    /\ output = <<>>

\* the largest star count, and fork count, among the repositories of the raw
\* list that pass the four checks (there is one)
SurvivorMaxStars ==
    CHOOSE m \in { repos[i].stargazers_count : i \in Passing } :
        \A i \in Passing : repos[i].stargazers_count <= m
SurvivorMaxForks ==
    CHOOSE m \in { repos[i].forks_count : i \in Passing } :
        \A i \in Passing : repos[i].forks_count <= m

\* C16: the star and fork sub-scores of every repository of a run are taken
\* against the same two maxima, those over all repositories that survived the
\* filter (not the raw list, not the selected ones only); and no repository
\* is scored while a bundle is still awaited.
C16_MaximaOverAllSurvivors ==
    /\ (pc # "done") => processed = <<>>
    /\ (pc = "done" /\ Passing # {}) =>
          /\ Len(processed) = Cardinality(Passing)
          /\ \A i \in DOMAIN enriched : enriched[i].settled
          /\ \A k \in DOMAIN processed :
                /\ processed[k].starScore =
                      scoreStars(repos[NthPassing(k)].stargazers_count, Max(SurvivorMaxStars, 1))
                /\ processed[k].forkScore =
                      scoreForks(repos[NthPassing(k)].forks_count, Max(SurvivorMaxForks, 1))
          /\ \A k \in DOMAIN output : \E i \in DOMAIN processed : output[k] = processed[i]

\* C16 witness: of two survivors only the one with fewer stars was selected,
\* and its star sub-score is below 1
C16_Witness ==
    /\ pc = "done"
    /\ Len(filtered) = 2 /\ Len(output) = 1
    /\ filtered[1].stargazers_count > filtered[2].stargazers_count
    /\ output[1].name = filtered[2].name
    /\ output[1].starScore > 0 /\ output[1].starScore < ScoreUnit

(***************************************************************************)
(* SpecRepeat: processRepos called again on the same input                 *)
(* (the bundles the enrichment returned are the same in every call)        *)
(***************************************************************************)
\* the snapshots of the account that the filter does not stop on fork,
\* archived or size
RepeatSnapshots == { s \in Snapshots : ~s.fork /\ ~s.archived /\ s.size = MinSizeKB }

\* a moment 100 days after the first run
LaterInstant == RunInstant + Days(100)

InitRepeat ==
    /\ NoSegmentation /\ NoScoring
    /\ repos \in SeqUpTo(RepeatSnapshots, MaxRepos)
    /\ username = AccountName
    /\ maxRepos \in 1..MaxTarget
    /\ now = RunInstant
    /\ pc = "start"
    /\ filtered = <<>> /\ enriched = <<>> /\ processed = <<>> /\ output = <<>>

\* one whole call of processRepos on the raw list rs at the moment clock,
\* every fetch answering what the API holds
runProcessRepos(rs, clock) ==
    /\ filtered' = hardFilterRepos(rs, username)
    /\ enriched' = [i \in DOMAIN filtered' |-> enrichmentOf(filtered'[i].name, {})]
    /\ LET maxStars == maxStarsOf(filtered')
           maxForks == maxForksOf(filtered')
       IN  processed' = [i \in DOMAIN filtered' |->
                            buildProcessedRepo(filtered'[i], enriched'[i],
                                               maxStars, maxForks, clock)]
    /\ output' = IF Len(filtered') = 0 THEN <<>> ELSE selectFinal(processed', maxRepos)

\* the first call
Run ==
    /\ pc = "start"
    /\ runProcessRepos(repos, now)
    /\ pc' = "done"
    /\ UNCHANGED <<repos, username, maxRepos, now, commits, segmentation, scoreIn, scoreOut>>

\* the same call made again at a later moment: Date.now() has moved on
RunAgainLater ==
    /\ pc = "done"
    /\ now < LaterInstant
    /\ now' = LaterInstant
    /\ runProcessRepos(repos, now')
    /\ UNCHANGED <<repos, username, maxRepos, pc, commits, segmentation, scoreIn, scoreOut>>

\* the same call on a list that differs in the has_projects and has_wiki
\* flags of one repository only
RunAgainWithFlags ==
    /\ pc = "done"
    /\ \E i \in DOMAIN repos : \E projects \in BOOLEAN, wiki \in BOOLEAN :
          /\ repos' = [repos EXCEPT ![i].has_projects = projects, ![i].has_wiki = wiki]
          /\ repos' # repos
    /\ runProcessRepos(repos', now)
    /\ UNCHANGED <<username, maxRepos, now, pc, commits, segmentation, scoreIn, scoreOut>>

NextRepeat == Run \/ RunAgainLater \/ RunAgainWithFlags

SpecRepeat == InitRepeat /\ [][NextRepeat]_vars

(***************************************************************************)
(* Claims about repeated runs (checked under SpecRepeat)                   *)
(***************************************************************************)
\* C11: a second run on the same snapshot list, bundles, account name and
\* target size returns the same output as the first, field by field, whatever
\* the moment it executes.
C11_RerunGivesSameOutput ==
    [][(pc = "done" /\ pc' = "done" /\ repos' = repos) => output' = output]_vars

\* what the ranking and the elimination are about: every field of a
\* ProcessedRepo but the complexity estimate
WithoutComplexity(r) ==
    [f \in (DOMAIN r) \ {"complexityScore", "complexityLabel"} |-> r[f]]

\* C12: the complexity estimate never influences ranking or elimination: a
\* run whose input differs only in has_projects and has_wiki, which feed the
\* complexity estimate alone, selects the same repositories in the same order
\* with the same finalScore (and the same value in every field but
\* complexityScore and complexityLabel).
C12_ComplexityNeverRanks ==
    [][(pc = "done" /\ pc' = "done" /\ now' = now) =>
          /\ Len(output') = Len(output)
          /\ \A i \in DOMAIN output :
                /\ output'[i].name = output[i].name
                /\ output'[i].finalScore = output[i].finalScore
                /\ WithoutComplexity(output'[i]) = WithoutComplexity(output[i])]_vars

\* C12 witness: the flags of the repository ranked second were set, which
\* lifted its complexity estimate above that of the repository ranked first
C12_Witness ==
    /\ pc = "done"
    /\ Len(output) = 2
    /\ \E i \in DOMAIN repos :
          /\ repos[i].name = output[2].name
          /\ repos[i].has_projects /\ repos[i].has_wiki
    /\ output[2].complexityScore > output[1].complexityScore
    /\ output[2].finalScore < output[1].finalScore

(***************************************************************************)
(* SpecEnrich: a run of processRepos in which any of the five fetches of   *)
(* any survivor may be rejected                                            *)
(***************************************************************************)
\* a raw list that names no repository twice
InitEnrich ==
    /\ InitRepeat
    /\ \A i \in DOMAIN repos : \A j \in DOMAIN repos : i # j => repos[i].name # repos[j].name

\* the five fetches of one survivor have settled, any of them by rejection
EnrichSettleAny ==
    /\ pc = "enriching"
    /\ \E i \in DOMAIN enriched : \E failed \in SUBSET FetchNames :
          /\ enriched[i] = Pending
          /\ enriched' = [enriched EXCEPT ![i] = enrichmentOf(filtered[i].name, failed)]
    /\ UNCHANGED <<repos, username, maxRepos, now, pc, filtered, processed, output,
                   commits, segmentation, scoreIn, scoreOut>>

NextEnrich == Start \/ EnrichSettleAny \/ Finish

SpecEnrich == InitEnrich /\ [][NextEnrich]_vars

(***************************************************************************)
(* Claims about the enrichment (checked under SpecEnrich)                  *)
(***************************************************************************)
\* what a bundle holds when exactly the fetches of failed were rejected
DegradedBundle(name, failed) ==
    [settled |-> TRUE,
     commits |-> IF "commits" \in failed THEN <<>> ELSE Remote(name).commits,
     languages |-> IF "languages" \in failed THEN <<>> ELSE Remote(name).languages,
     readmeInfo |-> IF "readme" \in failed
                    THEN [exists |-> FALSE, length |-> 0, hasUsageSection |-> FALSE]
                    ELSE Remote(name).readmeInfo,
     tagsCount |-> IF "tags" \in failed THEN 0 ELSE Remote(name).tagsCount,
     rootContents |-> IF "rootContents" \in failed THEN <<>> ELSE Remote(name).rootContents]

\* C13: whichever of the five fetches of a repository are rejected, its bundle
\* settles with exactly those fields at their defaults (empty list, empty map,
\* non-existent README, zero tags, empty listing) and the others as fetched;
\* the settling of one bundle leaves the other bundles as they are; and the
\* run ends with one scored repository per survivor and a non-empty result.
C13_FailureDegradesOnlyItsField ==
    /\ [](pc = "enriching" =>
            \A i \in DOMAIN enriched : ~enriched[i].settled =>
                \A failed \in SUBSET {"commits", "languages", "readme", "tags", "rootContents"} :
                    ENABLED (EnrichSettleAny /\ enriched' = [enriched EXCEPT ![i] =
                                          DegradedBundle(filtered[i].name, failed)]))
    /\ [][(pc = "enriching" /\ pc' = "enriching") =>
            \E i \in DOMAIN enriched :
                /\ \A j \in DOMAIN enriched : j # i => enriched'[j] = enriched[j]
                /\ \E failed \in SUBSET {"commits", "languages", "readme", "tags", "rootContents"} :
                      enriched'[i] = DegradedBundle(filtered[i].name, failed)]_vars
    /\ [](pc = "done" /\ Len(filtered) > 0 =>
            /\ Len(processed) = Len(filtered)
            /\ Len(output) >= 1
            /\ \A i \in DOMAIN enriched : enriched[i].settled)

\* C13 witness: of two survivors the first lost its commits and its README
\* only, the second lost nothing, and the run returned both
C13_Witness ==
    /\ pc = "done"
    /\ Len(filtered) = 2
    /\ enriched[1] = DegradedBundle(filtered[1].name, {"commits", "readme"})
    /\ enriched[1].languages # <<>> /\ enriched[1].tagsCount = 1
    /\ enriched[2] = DegradedBundle(filtered[2].name, {})
    /\ enriched[2].commits # <<>>
    /\ Len(output) = 2

(***************************************************************************)
(* SpecHang: a run of processRepos in which the remote may leave a fetch   *)
(* unanswered                                                              *)
(***************************************************************************)
\* the bundle of a survivor one of whose fetches the remote never answers:
\* await fetch(url, { headers, cache }) carries no signal and no timer, so
\* its promise stays pending and so does the Promise.all around it
NeverSettles == [settled |-> FALSE, unanswered |-> TRUE]

\* the remote stops answering a fetch of one survivor
EnrichHang ==
    /\ pc = "enriching"
    /\ \E i \in DOMAIN enriched :
          /\ enriched[i] = Pending
          /\ enriched' = [enriched EXCEPT ![i] = NeverSettles]
    /\ UNCHANGED <<repos, username, maxRepos, now, pc, filtered, processed, output,
                   commits, segmentation, scoreIn, scoreOut>>

NextHang == Start \/ EnrichSettleAny \/ EnrichHang \/ Finish

\* Finish is enabled: every bundle has settled and the run awaits them
FinishReady == pc = "enriching" /\ \A i \in DOMAIN enriched : enriched[i].settled

\* the event loop runs every continuation that is ready, and the remote
\* answers (or refuses) every fetch it has not dropped; the last conjunct is
\* WF_vars(Finish) with ENABLED <<Finish>>_vars written out as FinishReady,
\* which a Finish step leaves for good
SpecHang ==
    /\ InitEnrich /\ [][NextHang]_vars
    /\ WF_vars(Start) /\ WF_vars(EnrichSettleAny)
    /\ []<>(~FinishReady)

(***************************************************************************)
(* Claims about unanswered fetches (checked under SpecHang)                *)
(***************************************************************************)
\* C14: every enrichment fetch has its own timeout boundary, so that a fetch
\* the remote never answers degrades to its default and processRepos
\* eventually returns.
C14_RunEventuallyReturns == <>(pc = "done")

(***************************************************************************)
(* SpecCommitQuality: scoreCommitQuality on a commit list and a tag count  *)
(***************************************************************************)
\* n commits that touch days calendar days, at different hours of a day when
\* they share it; the first meaningful of them carry a meaningful message and
\* the others a noise word
CommitsOver(n, days, meaningful) ==
    [i \in 1..n |->
        Commit(Days(100 + ((i - 1) % days)) + (((i - 1) \div days) % HoursPerDay),
               IF i <= meaningful THEN PlainMessage ELSE MsgWip)]

\* any number of commits on any number of days, none, half or all of them
\* meaningful, with or without one more commit whose date does not parse;
\* no tag, one tag (fetchRepoTagsCount asks for one per page)
InitCommitQuality ==
    /\ NoRun
    /\ segmentation = [blocks |-> <<>>, activeDays |-> 0]
    /\ pc = "commitsFetched"
    /\ scoreOut = <<>>
    /\ \E tags \in {0, 1} : scoreIn = [tagsCount |-> tags]
    /\ \E n \in 0..MaxScoredCommits : \E days \in 1..Max(n, 1) :
       \E meaningful \in {0, n \div 2, n} : \E undated \in BOOLEAN :
          commits = CommitsOver(n, days, meaningful)
                      \o (IF undated THEN <<UndatedCommit(MsgRefactored)>> ELSE <<>>)

\* process.ts 537: scoreCommitQuality({ commits, tagsCount })
ScoreCommits ==
    /\ pc = "commitsFetched"
    /\ scoreOut' = [commitQualityScore |-> scoreCommitQuality(commits, scoreIn.tagsCount)]
    /\ pc' = "commitsScored"
    /\ UNCHANGED <<repos, username, maxRepos, now, filtered, enriched, processed,
                   output, commits, segmentation, scoreIn>>

NextCommitQuality == ScoreCommits

SpecCommitQuality == InitCommitQuality /\ [][NextCommitQuality]_vars

(***************************************************************************)
(* Claims about the commit quality (checked under SpecCommitQuality)       *)
(***************************************************************************)
\* the messages of the lists that count as meaningful
MeaningfulMessages == {PlainMessage, MsgRefactored}

MeaningfulCount == Cardinality({ i \in DOMAIN commits : commits[i].message \in MeaningfulMessages })

\* the commits whose date parses, and the calendar days they touch
DatedCommits == { i \in DOMAIN commits : commits[i].date.valid }

DistinctDays == Cardinality({ commits[i].date.t \div HoursPerDay : i \in DatedCommits })

\* the bucket of a number of distinct days, in units of 1e-4
SpreadBucket(days) ==
    IF days < 3 THEN 2000
    ELSE IF days <= 6 THEN 4000
    ELSE IF days <= 13 THEN 6000
    ELSE IF days <= 29 THEN 8000
    ELSE 10000

\* value is, within 2e-4, 0.5 x MeaningfulCount / Len(commits) + 0.3 x spread
\* + 0.2 x (1 if there is a tag) for a non-empty commit list
IsWeightedCommitQuality(value, spread) ==
    LET n == Len(commits)
        exact == 5 * MeaningfulCount * ScoreUnit + 3 * n * spread
                    + 2 * n * (IF scoreIn.tagsCount > 0 THEN ScoreUnit ELSE 0)
    IN  10 * n * value <= exact /\ exact < 10 * n * (value + 2)

\* C20 as claimed: commitQualityScore is 0.5 x fraction of meaningful
\* messages + 0.3 x time-spread + 0.2 x (1 if tag count > 0) for every commit
\* list, the time-spread being the bucket of the number of distinct days (0.2
\* below 3 days, so also for a single commit); with an empty commit list a
\* tag contributes its 0.2.
C20_CommitQualityAsClaimed ==
    pc = "commitsScored" =>
        /\ (Len(commits) > 0) =>
              IsWeightedCommitQuality(scoreOut.commitQualityScore, SpreadBucket(DistinctDays))
        /\ (Len(commits) = 0 /\ scoreIn.tagsCount > 0) =>
              scoreOut.commitQualityScore >= 2000

\* C20 as amended: commitQualityScore is 0 for an empty commit list, whatever
\* the tag count; for a non-empty list it is 0.5 x fraction of meaningful
\* messages + 0.3 x time-spread + 0.2 x (1 if tag count > 0), where the
\* time-spread is 0 when fewer than two commits carry a date that parses and
\* otherwise 0.2 for fewer than 3 distinct calendar days, 0.4 for 3-6, 0.6
\* for 7-13, 0.8 for 14-29 and 1.0 for 30 or more.
C20_CommitQualityFormula ==
    pc = "commitsScored" =>
        /\ (Len(commits) = 0) => (scoreOut.commitQualityScore = 0)
        /\ (Len(commits) > 0) =>
              IsWeightedCommitQuality(
                  scoreOut.commitQualityScore,
                  IF Cardinality(DatedCommits) < 2 THEN 0 ELSE SpreadBucket(DistinctDays))

\* C20 witness: fourteen dated commits on fourteen days and one undated, eight
\* of them meaningful, and a tag: 0.5 x 8/15 + 0.3 x 0.8 + 0.2
C20_Witness ==
    /\ pc = "commitsScored"
    /\ Len(commits) = 15
    /\ Cardinality(DatedCommits) = 14
    /\ DistinctDays = 14
    /\ MeaningfulCount = 8
    /\ scoreIn.tagsCount = 1
    /\ scoreOut.commitQualityScore \in 7065..7067

(***************************************************************************)
(* SpecComplexity: computeComplexityScore on the figures of one repository *)
(***************************************************************************)
\* byte totals of a language map: none, 100 B, 999 B, just under 10 MB and
\* just under 100 MB
ByteTotals == {0, 100, 999, 9999999, 99999999}

\* commits.length: fetchRepoCommits asks for 100 per page
CommitCounts == {0, 1, 5, 100}

ActiveBlockCounts == {0, 1, 3, 20}

ActiveDayTotals == {0, Days(1), Days(10), Days(20), Days(365), Days(2000)}

\* the figures processRepos hands over: no language means no byte; a block
\* needs a commit and lasts a day at least; a commit message is needed for a
\* keyword
InitComplexity ==
    /\ NoRun /\ NoSegmentation
    /\ pc = "figures"
    /\ scoreOut = <<>>
    /\ \E totalBytes \in ByteTotals, numLanguages \in 0..MaxLanguages,
          commitCount \in CommitCounts, hasComplexityKeywords \in BOOLEAN,
          activeDays \in ActiveDayTotals, activeBlockCount \in ActiveBlockCounts,
          hasIssues \in BOOLEAN, hasProjects \in BOOLEAN, hasWiki \in BOOLEAN :
          /\ (numLanguages = 0) => (totalBytes = 0)
          /\ activeBlockCount <= commitCount
          /\ (activeBlockCount = 0) <=> (activeDays = 0)
          /\ activeDays >= Days(activeBlockCount)
          /\ (commitCount = 1) => (activeDays <= Days(1))
          /\ hasComplexityKeywords => (commitCount > 0)
          /\ scoreIn = [totalBytes |-> totalBytes, numLanguages |-> numLanguages,
                        commitCount |-> commitCount,
                        hasComplexityKeywords |-> hasComplexityKeywords,
                        activeDays |-> activeDays, activeBlockCount |-> activeBlockCount,
                        hasIssues |-> hasIssues, hasProjects |-> hasProjects,
                        hasWiki |-> hasWiki]

\* process.ts 569-580: computeComplexityScore({ ... })
Estimate ==
    /\ pc = "figures"
    /\ scoreOut' = computeComplexityScore(scoreIn.totalBytes, scoreIn.numLanguages,
                                          scoreIn.commitCount, scoreIn.hasComplexityKeywords,
                                          scoreIn.activeDays, scoreIn.activeBlockCount,
                                          scoreIn.hasIssues, scoreIn.hasProjects,
                                          scoreIn.hasWiki)
    /\ pc' = "estimated"
    /\ UNCHANGED <<repos, username, maxRepos, now, filtered, enriched, processed,
                   output, commits, segmentation, scoreIn>>

NextComplexity == Estimate

SpecComplexity == InitComplexity /\ [][NextComplexity]_vars

(***************************************************************************)
(* Claims about the complexity estimate (checked under SpecComplexity)     *)
(***************************************************************************)
\* the five components of the estimate, in hundredths
ComplexityParts ==
    <<sizeScore(scoreIn.totalBytes),
      breadthScore(scoreIn.numLanguages),
      commitStructureScore(scoreIn.commitCount, scoreIn.hasComplexityKeywords,
                           scoreIn.activeDays),
      longevityScore(scoreIn.activeDays, scoreIn.activeBlockCount),
      maturityScore(scoreIn.hasIssues, scoreIn.hasProjects, scoreIn.hasWiki)>>

\* the caps of size, breadth, commit structure, longevity and maturity
ComplexityCaps == <<30, 20, 20, 20, 10>>

LabelRank(label) ==
    CASE label = "Low" -> 0
      [] label = "Medium" -> 1
      [] label = "High" -> 2
      [] label = "Very High" -> 3

\* C22: the complexity score is an integer of [0,100], the rounded sum of
\* five components that each stay within their cap (size 30, breadth 20,
\* commit structure 20, longevity 20, maturity 10); the label depends on the
\* score only: Very High from 75, High from 50, Medium from 25, Low below,
\* and so never falls as the score rises.
C22_ComplexityScoreAndLabel ==
    pc = "estimated" =>
        /\ \A i \in 1..5 : ComplexityParts[i] \in 0..(ComplexityCaps[i] * 100)
        /\ scoreOut.score \in 0..100
        /\ 100 * scoreOut.score - SumSeq(ComplexityParts) \in (-49)..50
        /\ scoreOut.label =
              (IF scoreOut.score >= 75 THEN "Very High"
               ELSE IF scoreOut.score >= 50 THEN "High"
               ELSE IF scoreOut.score >= 25 THEN "Medium"
               ELSE "Low")
        /\ \A lower \in 0..scoreOut.score :
              LabelRank(complexityLabelOf(lower)) <= LabelRank(scoreOut.label)

\* C22 witness: a repository that reaches every cap: just under 100 MB in six
\* languages, a hundred commits with a keyword on twenty active days in
\* twenty blocks, issues, projects and wiki enabled
C22_Witness ==
    /\ pc = "estimated"
    /\ scoreIn.numLanguages > 5
    /\ scoreIn.activeDays = Days(20)
    /\ \A i \in 1..5 : ComplexityParts[i] = ComplexityCaps[i] * 100
    /\ scoreOut.score = 100
    /\ scoreOut.label = "Very High"

(***************************************************************************)
(* SpecInterleave: a run of processRepos in which every fetch of every     *)
(* survivor settles on its own, in any order                               *)
(***************************************************************************)
\* the field of the bundle that a fetch fills (the destructuring of the inner
\* Promise.all)
FieldOf(fetch) ==
    CASE fetch = "commits" -> "commits"
      [] fetch = "languages" -> "languages"
      [] fetch = "readme" -> "readmeInfo"
      [] fetch = "tags" -> "tagsCount"
      [] fetch = "rootContents" -> "rootContents"

BundleFields == { FieldOf(fetch) : fetch \in FetchNames }

\* the fetches that may be rejected in a run of SpecInterleave
Rejectable == {"commits", "languages"}

\* what one fetch for a repository settles to: what the API holds, or through
\* its .catch the default of its field
fetchResult(name, fetch, rejected) ==
    enrichmentOf(name, IF rejected THEN {fetch} ELSE {})[FieldOf(fetch)]

\* a mutation of placeOf: a value is stored in completion order, in the
\* first bundle that still lacks the field
firstFreePlace(i, fetch, bundles) ==
    CHOOSE j \in DOMAIN bundles :
        /\ FieldOf(fetch) \notin DOMAIN bundles[j]
        /\ \A k \in DOMAIN bundles : k < j => FieldOf(fetch) \in DOMAIN bundles[k]

\* Promise.all resolves to the values in the order of its promises: the
\* value of a fetch for filtered[i] is stored in bundle i
placeOf(i, fetch, bundles) == i

\* a bundle with one more field; with all five it is settled (the async
\* callback of filtered.map returns)
withResult(bundle, field, value) ==
    LET got == [x \in DOMAIN bundle \cup {field} |->
                   IF x = field THEN value ELSE bundle[x]]
    IN  IF BundleFields \subseteq DOMAIN got
        THEN [x \in DOMAIN got |-> IF x = "settled" THEN TRUE ELSE got[x]]
        ELSE got

\* one fetch of one survivor settles
FetchSettle ==
    /\ pc = "enriching"
    /\ \E i \in DOMAIN enriched : \E fetch \in FetchNames :
       \E rejected \in {r \in BOOLEAN : r => fetch \in Rejectable} :
          /\ FieldOf(fetch) \notin DOMAIN enriched[i]
          /\ LET j == placeOf(i, fetch, enriched)
             IN  enriched' =
                    [enriched EXCEPT ![j] =
                        withResult(enriched[j], FieldOf(fetch),
                                   fetchResult(filtered[i].name, fetch, rejected))]
    /\ UNCHANGED <<repos, username, maxRepos, now, pc, filtered, processed, output,
                   commits, segmentation, scoreIn, scoreOut>>

NextInterleave == Start \/ FetchSettle \/ Finish

SpecInterleave == InitEnrich /\ [][NextInterleave]_vars

(***************************************************************************)
(* Claims about the interleaving (checked under SpecInterleave)            *)
(***************************************************************************)
\* the fetches of survivor i whose value in bundle i is not what the API holds
\* for that survivor
RejectedOf(i) ==
    { fetch \in FetchNames :
        /\ FieldOf(fetch) \in DOMAIN enriched[i]
        /\ enriched[i][FieldOf(fetch)] # Remote(filtered[i].name)[FieldOf(fetch)] }

\* C27: in whatever order the fetches complete, bundle i holds the values
\* fetched for filtered repository i (or the defaults of its rejected
\* fetches), repository i is scored with bundle i, and so the result depends
\* on the list and on which fetches were rejected only, not on the order of
\* completion.
C27_BundleStaysWithItsRepository ==
    /\ (pc = "enriching") =>
          \A i \in DOMAIN enriched : \A fetch \in FetchNames :
              (FieldOf(fetch) \in DOMAIN enriched[i]) =>
                  \E rejected \in BOOLEAN :
                      enriched[i][FieldOf(fetch)]
                          = fetchResult(filtered[i].name, fetch, rejected)
    /\ (pc = "done" /\ Len(filtered) > 0) =>
          /\ \A i \in DOMAIN filtered :
                /\ enriched[i] = enrichmentOf(filtered[i].name, RejectedOf(i))
                /\ processed[i].name = filtered[i].name
                /\ processed[i] = buildProcessedRepo(filtered[i],
                                       enrichmentOf(filtered[i].name, RejectedOf(i)),
                                       maxStarsOf(filtered), maxForksOf(filtered), now)
          /\ output = selectFinal(processed, maxRepos)

\* C27 witness: of two survivors the second has all its values while the
\* first still waits for its commits, its last fetch having answered before
\* its first
C27_Witness ==
    /\ pc = "enriching"
    /\ Len(filtered) = 2
    /\ enriched[2] = enrichmentOf(filtered[2].name, {})
    /\ ~enriched[1].settled
    /\ "rootContents" \in DOMAIN enriched[1]
    /\ "commits" \notin DOMAIN enriched[1]
    /\ enriched[1].rootContents = Remote(filtered[1].name).rootContents

(***************************************************************************)
(* SpecLanguages: from the language maps of the survivors to the selection *)
(* (extractLanguages, then the sort, the pool and the diversity pass)      *)
(***************************************************************************)
\* what the language fetch of a survivor gave: the empty map (also the
\* default of a rejected fetch), or a map led by TypeScript
LanguageMaps ==
    { <<>>,
      <<[lang |-> "CSS", bytes |-> 99], [lang |-> "TypeScript", bytes |-> 900]>> }

\* up to MaxLabelled survivors, each with its language map and the finalScore
\* the scoring gave it
InitLanguages ==
    /\ NoSegmentation
    /\ repos = <<>> /\ username = <<>> /\ now = 0
    /\ filtered = <<>> /\ processed = <<>> /\ output = <<>>
    /\ pc = "bundles"
    /\ scoreOut = <<>>
    /\ maxRepos \in 1..MaxSelectTarget
    /\ \E n \in 0..MaxLabelled :
          /\ enriched \in [1..n -> { [languages |-> map] : map \in LanguageMaps }]
          /\ scoreIn \in [1..n -> {LowScore, HighScore}]

\* process.ts 488-489 and 612-621: the languages of every survivor, then the
\* selection
SelectByLanguage ==
    /\ pc = "bundles"
    /\ LET labelled ==
               [i \in DOMAIN enriched |->
                   LET langs == extractLanguages(enriched[i].languages)
                   IN  [name |-> CandidateName(i),
                        primaryLanguage |-> langs.primary,
                        secondaryLanguage |-> langs.secondary,
                        finalScore |-> scoreIn[i]]]
       IN  /\ processed' = labelled
           /\ output' = selectFinal(labelled, maxRepos)
    /\ pc' = "selected"
    /\ UNCHANGED <<repos, username, maxRepos, now, filtered, enriched,
                   commits, segmentation, scoreIn, scoreOut>>

NextLanguages == SelectByLanguage

SpecLanguages == InitLanguages /\ [][NextLanguages]_vars

(***************************************************************************)
(* Claims about the languages (checked under SpecLanguages)                *)
(***************************************************************************)
\* the survivors whose language map is empty
WithoutLanguages == { i \in DOMAIN enriched : enriched[i].languages = <<>> }

\* C29: every repository whose language map is empty (a rejected language
\* fetch gives the empty map) has the primary language "Unknown", and the cap
\* holds of them together: at most 2 of them are in the output, however many
\* they are and however high they score.
C29_UnknownSharesOneCap ==
    pc = "selected" =>
        /\ \A i \in WithoutLanguages : processed[i].primaryLanguage = "Unknown"
        /\ Cardinality({ i \in WithoutLanguages :
                            \E m \in DOMAIN output : output[m].name = processed[i].name })
              <= MaxPerLang

\* C29 witness: four repositories without a language map all score high, one
\* with a map scores low; two of the four and the one with a map are returned
C29_Witness ==
    /\ pc = "selected"
    /\ Cardinality(WithoutLanguages) = 4
    /\ Len(processed) = 5
    /\ \A i \in DOMAIN processed :
          processed[i].finalScore = (IF i \in WithoutLanguages THEN HighScore ELSE LowScore)
    /\ Len(output) = 3
    /\ output[1].primaryLanguage = "Unknown" /\ output[2].primaryLanguage = "Unknown"
    /\ output[3].primaryLanguage = "TypeScript"

(***************************************************************************)
(* SpecRender: a run of processRepos whose result is handed to the          *)
(* mini-card renderer (generateMiniSVG of lib/svg-generator.ts)             *)
(***************************************************************************)
\* repo.activeDays / totalDays, in units of 1e-4; 0 / 0 is NaN
shareOf(activeDays, totalDays) ==
    IF totalDays = 0
    THEN [defined |-> FALSE, value |-> 0]
    ELSE [defined |-> TRUE, value |-> (activeDays * ScoreUnit) \div totalDays]

\* what generateMiniSVG computes of the list before it draws: the empty card
\* for an empty list, else totalDays and the share of each of the first 8
generateMiniSVG(list) ==
    IF Len(list) = 0
    THEN [empty |-> TRUE, totalDays |-> 0, shares |-> <<>>]
    ELSE LET totalDays == SumSeq([i \in DOMAIN list |-> list[i].activeDays])
             maxProjects == Min(Len(list), 8)
         IN  [empty |-> FALSE,
              totalDays |-> totalDays,
              shares |-> [i \in 1..maxProjects |-> shareOf(list[i].activeDays, totalDays)]]

\* generateTimelineSVG(processed, ...) in mode "mini", on what processRepos
\* returned
Render ==
    /\ pc = "done"
    /\ scoreOut' = generateMiniSVG(output)
    /\ pc' = "rendered"
    /\ UNCHANGED <<repos, username, maxRepos, now, filtered, enriched, processed,
                   output, commits, segmentation, scoreIn>>

NextRender == Start \/ EnrichSettle \/ Finish \/ Render

SpecRender == InitEnrich /\ [][NextRender]_vars

(***************************************************************************)
(* Claims about the rendering (checked under SpecRender)                   *)
(***************************************************************************)
\* C30: for every non-empty list processRepos returns, totalDays (the sum of
\* activeDays over the list) is above 0 and so every share activeDays /
\* totalDays of the mini card is defined, also when every selected
\* repository has an empty commit list.
C30_SharesAreDefined ==
    (pc = "rendered" /\ Len(output) > 0) =>
        /\ scoreOut.totalDays > 0
        /\ \A i \in DOMAIN scoreOut.shares : scoreOut.shares[i].defined

====
